---------------------------- MODULE Spec2Model ----------------------------
(***************************************************************************)
(* State-machine model of the Dynatrace log TUI (src/dynatrace_log_tui).   *)
(* The application object DynatraceLogTUI is the state; every key binding  *)
(* or dialog callback is one action.  Python strings are sequences of      *)
(* one-character strings, so that lower(), strip(), split() and the `in`   *)
(* substring test are computed, not assumed.                               *)
(***************************************************************************)
EXTENDS Integers, Sequences, FiniteSets, TLC

VARIABLES
    environment,          \* os.environ: the variables that are set
    now,                  \* datetime.now(timezone.utc), the clock
    history_file,         \* the file query_history.json
    queries_file,         \* the file saved_queries.json
    development_mode,     \* self.development_mode
    dynatrace_client,     \* self.dynatrace_client, <<>> for None
    current_time_range,   \* self.current_time_range
    selected_log,         \* self.selected_log, <<>> for None
    log_details,          \* the record the #log_details pane shows, if any
    mounted,              \* on_mount has run
    all_logs,             \* self.all_logs
    current_logs,         \* self.current_logs
    query_text,           \* text of the #query_input QueryTextArea
    query_history,        \* self.query_history.history (query texts)
    visible_columns,      \* self.visible_columns
    table_columns,        \* columns of the #log_table DataTable
    table_rows,           \* rows of the #log_table DataTable
    search_term,          \* self.search_term
    search_matches,       \* self.search_matches, (row_index, col_index)
    current_match_index,  \* self.current_match_index
    search_active,        \* self.search_active
    current_details_index, \* self.current_details_index
    details_visible,      \* self.details_visible
    details_height,       \* styles.height of the #log_details pane
    saved_queries,        \* self.query_manager.queries (name, query)
    history_deletes,      \* entries deleted from the history so far
    session,              \* "running", or "crashed" by an uncaught exception
    notifications,        \* notify() calls of the last handled event
    last_response,        \* what the remote collaborator gave the last event
    last_timeframe,       \* the last call of calculate_timeframe
    last_action           \* the last handled event and its input

startVars  == <<environment, now, development_mode, dynatrace_client>>
selectVars == <<current_time_range, selected_log, log_details>>
dataVars   == <<startVars, all_logs, current_logs>>
searchVars == <<search_term, search_matches, current_match_index, search_active>>
tableVars  == <<table_columns, table_rows>>
detailsVars == <<current_details_index, details_visible, details_height>>
vars == <<environment, now, history_file, queries_file, dynatrace_client,
          current_time_range, selected_log, log_details, last_timeframe,
          development_mode, mounted, all_logs, current_logs, query_text,
          query_history, visible_columns, table_columns, table_rows,
          search_term, search_matches, current_match_index, search_active,
          current_details_index, details_visible, details_height,
          saved_queries, history_deletes, session, notifications,
          last_response, last_action>>

---------------------------------------------------------------------------
(* Bounds of the model. *)

\* longest record list drawn for all_logs
MaxLogs == 2

\* most entries deleted one by one in the history dialog in one session
MaxHistoryDeletes == 2

\* longest text typed into the query box
MaxQueryLen == 3

\* typed texts are run while the history has fewer entries than this
MaxTypedEntries == 1

---------------------------------------------------------------------------
(* Python str operations on character sequences. *)

UpperCase == <<"A","B","C","D","E","F","G","H","I","J","K","L","M",
               "N","O","P","Q","R","S","T","U","V","W","X","Y","Z">>
LowerCase == <<"a","b","c","d","e","f","g","h","i","j","k","l","m",
               "n","o","p","q","r","s","t","u","v","w","x","y","z">>

\* the lower-case letter of each upper-case letter
LowerOf ==
    [u \in {UpperCase[i] : i \in 1..Len(UpperCase)} |->
        LowerCase[CHOOSE i \in 1..Len(UpperCase) : UpperCase[i] = u]]

LowerChar(c) == IF c \in DOMAIN LowerOf THEN LowerOf[c] ELSE c

\* str.lower()
lower(s) == [i \in 1..Len(s) |-> LowerChar(s[i])]

\* the `sub in s` substring test
contains(sub, s) ==
    \E i \in 0..(Len(s) - Len(sub)) : SubSeq(s, i + 1, i + Len(sub)) = sub

Whitespace == {" ", "\t", "\n", "\r"}

RECURSIVE lstrip(_)
lstrip(s) ==
    IF s # <<>> /\ Head(s) \in Whitespace THEN lstrip(Tail(s)) ELSE s

RECURSIVE rstrip(_)
rstrip(s) ==
    IF s # <<>> /\ s[Len(s)] \in Whitespace
    THEN rstrip(SubSeq(s, 1, Len(s) - 1))
    ELSE s

\* str.strip()
strip(s) == rstrip(lstrip(s))

\* str.startswith(prefix)
startswith(s, prefix) ==
    Len(prefix) <= Len(s) /\ SubSeq(s, 1, Len(prefix)) = prefix

\* str.split('\n')
RECURSIVE split_lines(_)
split_lines(s) ==
    IF \E i \in 1..Len(s) : s[i] = "\n"
    THEN LET i == CHOOSE k \in 1..Len(s) :
                      s[k] = "\n" /\ \A j \in 1..(k - 1) : s[j] # "\n"
         IN  <<SubSeq(s, 1, i - 1)>> \o split_lines(SubSeq(s, i + 1, Len(s)))
    ELSE <<s>>

\* '\n'.join(lines)
RECURSIVE join_lines(_)
join_lines(lines) ==
    IF lines = <<>> THEN <<>>
    ELSE IF Len(lines) = 1 THEN lines[1]
    ELSE lines[1] \o <<"\n">> \o join_lines(Tail(lines))

Digits == <<"0","1","2","3","4","5","6","7","8","9">>
Digit(n) == Digits[n + 1]
Pad2(n) == <<Digit((n \div 10) % 10), Digit(n % 10)>>
Pad4(n) == <<Digit((n \div 1000) % 10), Digit((n \div 100) % 10)>> \o Pad2(n)

\* datetime.strftime("%Y-%m-%d %H:%M:%S")
strftime(ts) ==
    Pad4(ts.year) \o <<"-">> \o Pad2(ts.month) \o <<"-">> \o Pad2(ts.day)
    \o <<" ">> \o Pad2(ts.hour) \o <<":">> \o Pad2(ts.minute)
    \o <<":">> \o Pad2(ts.second)

---------------------------------------------------------------------------
(* QueryProcessor and QueryHistory (query_manager.py). *)

IsQueryLine(line) ==
    strip(line) # <<>> /\ ~startswith(strip(line), <<"#">>)

\* clean_query testing each line for '#' without strip()
clean_query_indented_comments_kept(query) ==
    LET IsLine(line) == strip(line) # <<>> /\ ~startswith(line, <<"#">>)
    IN  strip(join_lines(SelectSeq(split_lines(query), IsLine)))

\* QueryProcessor.clean_query
clean_query(query) ==
    strip(join_lines(SelectSeq(split_lines(query), IsQueryLine)))

\* QueryHistory keeps only the last 50 queries
HistoryLimit == 50

\* the first n entries of a list, s[:n]
take(s, n) == SubSeq(s, 1, IF Len(s) < n THEN Len(s) ELSE n)

\* QueryHistory.add_query without the removal of the earlier entry
history_add_query_keeps_earlier(history, query) ==
    LET clean_q == strip(join_lines(SelectSeq(split_lines(query), IsQueryLine)))
    IN  IF clean_q # <<>>
        THEN take(<<clean_q>> \o history, HistoryLimit)
        ELSE history

\* QueryHistory.add_query without the cut to the last 50
history_add_query_uncut(history, query) ==
    LET clean_q == strip(join_lines(SelectSeq(split_lines(query), IsQueryLine)))
        others  == SelectSeq(history, LAMBDA h : h # clean_q)
    IN  IF clean_q # <<>> THEN <<clean_q>> \o others ELSE history

\* QueryHistory.add_query: the new value of self.history
history_add_query(history, query) ==
    LET clean_q == strip(join_lines(SelectSeq(split_lines(query), IsQueryLine)))
        others  == SelectSeq(history, LAMBDA h : h # clean_q)
        added   == <<clean_q>> \o others
    IN  IF clean_q # <<>>
        THEN SubSeq(added, 1, IF Len(added) < HistoryLimit
                              THEN Len(added) ELSE HistoryLimit)
        ELSE history

\* QueryHistory.get_recent_queries(20), the list the history dialog shows
RecentLimit == 20
get_recent_queries(history) == take(history, RecentLimit)

\* QueryHistory.clear_entry testing the index against the length only, as
\* list.pop would
clear_entry_accepts_below_length(history, index) == index < Len(history)

\* QueryHistory.clear_entry: whether the index is accepted, and the new list
clear_entry_accepts(history, index) == 0 <= index /\ index < Len(history)
clear_entry(history, index) ==
    IF clear_entry_accepts(history, index)
    THEN SubSeq(history, 1, index) \o SubSeq(history, index + 2, Len(history))
    ELSE history

---------------------------------------------------------------------------
(* QueryManager (query_manager.py): the saved queries, most recent first.  *)

SavedQuery(name, query) == [name |-> name, query |-> query]

\* QueryManager.add_query comparing names without regard to letter case
manager_add_accepts_caseless(queries, name, query) ==
    /\ strip(query) # <<>>
    /\ ~\E i \in 1..Len(queries) : lower(queries[i].name) = lower(name)

\* the condition of QueryManager.add_query
manager_add_accepts(queries, name, query) ==
    /\ strip(query) # <<>>
    /\ ~\E i \in 1..Len(queries) : queries[i].name = name

\* QueryManager.add_query: the new value of self.queries
manager_add_query(queries, name, query) ==
    IF manager_add_accepts(queries, name, query)
    THEN <<SavedQuery(name, query)>> \o queries
    ELSE queries

\* QueryManager.delete_query keeping the entries up to the one deleted
manager_delete_query_first_only(queries, name) ==
    LET hits == {i \in 1..Len(queries) : queries[i].name = name}
    IN  IF hits = {} THEN queries
        ELSE LET k == CHOOSE i \in hits : \A j \in hits : i <= j
             IN  SubSeq(queries, 1, k - 1)

\* QueryManager.delete_query: the new value of self.queries
manager_delete_query(queries, name) ==
    SelectSeq(queries, LAMBDA q : q.name # name)

\* QueryManager.update_query: the entry it changes, 0 when there is none
manager_update_index(queries, name) ==
    LET hits == {i \in 1..Len(queries) : queries[i].name = name}
    IN  IF hits = {} THEN 0 ELSE CHOOSE i \in hits : \A j \in hits : i <= j

manager_update_query(queries, name, new_query) ==
    LET k == manager_update_index(queries, name)
    IN  IF k = 0 THEN queries
        ELSE [queries EXCEPT ![k] = SavedQuery(name, new_query)]

---------------------------------------------------------------------------
(* Log records (data.py).  A record has the eight keys of DUMMY_LOGS; the  *)
(* sample records stand for the generated dummy data and for mapped remote *)
(* records.                                                                *)

LogA == [timestamp |-> [year |-> 2024, month |-> 3, day |-> 15,
                        hour |-> 10, minute |-> 0, second |-> 1],
         level     |-> <<"E","R","R","O","R">>,
         service   |-> <<"p","a","y">>,
         message   |-> <<"F","a","i","l","e","d">>,
         trace_id  |-> <<"a","b">>,
         span_id   |-> <<>>,
         host      |-> <<"h","1">>,
         content   |-> <<"f","u","n","d","s">>]

LogB == [timestamp |-> [year |-> 2024, month |-> 3, day |-> 14,
                        hour |-> 23, minute |-> 59, second |-> 59],
         level     |-> <<"I","N","F","O">>,
         service   |-> <<"u","s","e","r">>,
         message   |-> <<"L","o","g","o","n">>,
         trace_id  |-> <<>>,
         span_id   |-> <<>>,
         host      |-> <<"p","a","y">>,
         content   |-> <<"o","k">>]

SampleLogs == {LogA, LogB}

\* the sequences over S of length lo..hi
SeqsOf(S, lo, hi) == UNION {[1..n -> S] : n \in lo..hi}

\* the loop of filter_logs, from position i on
RECURSIVE filter_loop(_, _, _)
filter_loop(logs, query_lower, i) ==
    IF i > Len(logs) THEN <<>>
    ELSE LET log == logs[i]
             hit == \/ contains(query_lower, lower(log.message))
                    \/ contains(query_lower, lower(log.service))
                    \/ contains(query_lower, lower(log.level))
                    \/ contains(query_lower, lower(log.content))
         IN  (IF hit THEN <<log>> ELSE <<>>)
             \o filter_loop(logs, query_lower, i + 1)

\* filter_logs comparing the query as typed (no lower() on the query)
filter_logs_query_as_typed(logs, query) ==
    IF strip(query) = <<>> THEN logs
    ELSE filter_loop(logs, query, 1)

\* filter_logs searching the module's DUMMY_LOGS instead of the list passed
filter_logs_over_dummy_logs(logs, query) ==
    IF strip(query) = <<>> THEN logs
    ELSE filter_loop(<<LogA, LogB>>, lower(query), 1)

\* data.filter_logs
filter_logs(logs, query) ==
    IF strip(query) = <<>> THEN logs
    ELSE filter_loop(logs, lower(query), 1)

---------------------------------------------------------------------------
(* The remote collaborator (api_client.py).  A response is an error dict,  *)
(* a body that is no dict (the `in` test on it raises), or a result with   *)
(* raw records; a raw record either maps to a log record or fails to parse.*)

RawOk(log) == [parse |-> "ok", log |-> log]
RawBad     == [parse |-> "fail", log |-> LogA]

\* the record lists of the successful responses drawn: none, one, two, and
\* lists with a record that fails to parse in the middle and at the front
RemoteRecordLists ==
    { <<>>,
      <<RawOk(LogB)>>,
      <<RawOk(LogA), RawOk(LogB)>>,
      <<RawOk(LogB), RawBad, RawOk(LogA)>>,
      <<RawBad, RawOk(LogB)>> }

ApiResponses ==
    {[kind |-> "error", records |-> <<>>], [kind |-> "raise", records |-> <<>>]}
    \cup {[kind |-> "ok", records |-> r] : r \in RemoteRecordLists}

\* DynatraceClient.convert_to_log_format: the try wraps the whole loop, so
\* the first record that raises ends the loop and the list built so far is
\* returned
RECURSIVE convert_loop(_, _)
convert_loop(records, i) ==
    IF i > Len(records) \/ records[i].parse = "fail" THEN <<>>
    ELSE <<records[i].log>> \o convert_loop(records, i + 1)

convert_to_log_format(api_response) ==
    IF api_response.kind = "error" THEN <<>>
    ELSE convert_loop(api_response.records, 1)

---------------------------------------------------------------------------
(* Columns (main.py __init__, modals.py ColumnSelectionModal).             *)

all_columns ==
    <<"Timestamp", "Level", "Service", "Message", "Host", "Trace ID",
      "Span ID", "Content", "User ID", "Session ID", "Request ID",
      "Response Time", "Status Code", "Method", "Endpoint", "Client IP",
      "User Agent", "Referer", "Thread ID", "Process ID", "Memory Usage",
      "CPU Usage", "Disk IO", "Network IO", "Cache Hit", "Database Query",
      "Error Code", "Stack Trace", "Custom Field 1", "Custom Field 2">>

\* a default list naming a column that all_columns does not have
default_visible_columns_misnamed ==
    <<"Timestamp", "Level", "Service", "Message", "Hostname">>

default_visible_columns == <<"Timestamp", "Level", "Service", "Message", "Host">>

Range(s) == {s[i] : i \in 1..Len(s)}

\* sorted(all_columns): Python's string order of the thirty names
sorted_all_columns ==
    <<"CPU Usage", "Cache Hit", "Client IP", "Content", "Custom Field 1",
      "Custom Field 2", "Database Query", "Disk IO", "Endpoint",
      "Error Code", "Host", "Level", "Memory Usage", "Message", "Method",
      "Network IO", "Process ID", "Referer", "Request ID", "Response Time",
      "Service", "Session ID", "Span ID", "Stack Trace", "Status Code",
      "Thread ID", "Timestamp", "Trace ID", "User Agent", "User ID">>

\* ColumnSelectionModal.compose listing the other columns as all_columns
\* has them
modal_checkboxes_unsorted(available_columns, selected_columns) ==
    SelectSeq(selected_columns, LAMBDA c : c \in Range(available_columns))
    \o SelectSeq(available_columns,
                 LAMBDA c : c \notin Range(selected_columns))

\* ColumnSelectionModal.compose: the keys of self.checkboxes in insertion
\* order: the selected columns that are available, then the rest sorted
modal_checkboxes(available_columns, selected_columns) ==
    SelectSeq(selected_columns, LAMBDA c : c \in Range(available_columns))
    \o SelectSeq(sorted_all_columns,
                 LAMBDA c : c \in Range(available_columns)
                            /\ c \notin Range(selected_columns))

\* ColumnSelectionModal.on_button_pressed, Apply: the checked columns in
\* checkbox order
modal_apply(checkboxes, checked) ==
    SelectSeq(checkboxes, LAMBDA c : c \in checked)

---------------------------------------------------------------------------
(* The table widget (ui_components.py LogTablePopulator).  A cell is its   *)
(* text and how it was rendered: "plain" (a bare string), "level" (a       *)
(* styled Text), "escaped" (markup-escaped) or "highlight" (passed through *)
(* _highlight_search_term).                                                *)

MessageDisplayLen == 50
ContentDisplayLen == 30

Cell(text, style) == [text |-> text, style |-> style]

truncate(text, n) ==
    IF Len(text) > n THEN SubSeq(text, 1, n) \o <<".", ".", ".">> ELSE text

\* the branch shared by the searchable columns: highlight when the term is
\* non-empty and occurs in the untruncated text
text_cell(full_text, shown_text, term) ==
    IF term # <<>> /\ contains(lower(term), lower(full_text))
    THEN Cell(shown_text, "highlight")
    ELSE Cell(shown_text, "escaped")

\* the cells populate_table appends for one column of one log (none for a
\* column without a branch)
row_cells(log, column, term) ==
    CASE column = "Timestamp" -> <<Cell(strftime(log.timestamp), "plain")>>
      [] column = "Level"     -> <<Cell(log.level, "level")>>
      [] column = "Service"   -> <<text_cell(log.service, log.service, term)>>
      [] column = "Message"   ->
            <<text_cell(log.message,
                        truncate(log.message, MessageDisplayLen), term)>>
      [] column = "Host"      -> <<text_cell(log.host, log.host, term)>>
      [] column = "Trace ID"  -> <<text_cell(log.trace_id, log.trace_id, term)>>
      [] column = "Span ID"   -> <<text_cell(log.span_id, log.span_id, term)>>
      [] column = "Content"   ->
            <<text_cell(log.content,
                        truncate(log.content, ContentDisplayLen), term)>>
      [] OTHER                -> <<>>

RECURSIVE row_data(_, _, _, _)
row_data(log, columns, term, c) ==
    IF c > Len(columns) THEN <<>>
    ELSE row_cells(log, columns[c], term) \o row_data(log, columns, term, c + 1)

\* LogTablePopulator.populate_table: the rows of the cleared table
populate_table(logs, columns, term) ==
    [r \in 1..Len(logs) |-> row_data(logs[r], columns, term, 1)]

\* LogTablePopulator.setup_table_columns: the columns of the cleared table
setup_table_columns(columns) == columns

---------------------------------------------------------------------------
(* Search (main.py _perform_search).                                       *)

\* the text _perform_search reads for one cell
cell_text(log, column) ==
    CASE column = "Timestamp" -> strftime(log.timestamp)
      [] column = "Service"   -> log.service
      [] column = "Message"   -> log.message
      [] column = "Host"      -> log.host
      [] column = "Trace ID"  -> log.trace_id
      [] column = "Span ID"   -> log.span_id
      [] column = "Content"   -> log.content
      [] OTHER                -> <<>>

\* the inner loop without the `continue` for the Level column
RECURSIVE search_columns_with_level(_, _, _, _, _)
search_columns_with_level(log, row_index, columns, term, col_index) ==
    IF col_index >= Len(columns) THEN <<>>
    ELSE LET column == columns[col_index + 1]
             text   == IF column = "Level" THEN log.level
                       ELSE cell_text(log, column)
             found  == contains(term, lower(text))
         IN  (IF found THEN <<(<<row_index, col_index>>)>> ELSE <<>>)
             \o search_columns_with_level(log, row_index, columns, term,
                                          col_index + 1)

\* the inner loop of _perform_search over the columns of row row_index,
\* from column col_index on (both zero-based, as enumerate gives them)
RECURSIVE search_columns(_, _, _, _, _)
search_columns(log, row_index, columns, term, col_index) ==
    IF col_index >= Len(columns) THEN <<>>
    ELSE LET column == columns[col_index + 1]
             found  == column # "Level"
                       /\ contains(term, lower(cell_text(log, column)))
         IN  (IF found THEN <<(<<row_index, col_index>>)>> ELSE <<>>)
             \o search_columns(log, row_index, columns, term, col_index + 1)

\* the outer loop of _perform_search over the rows, from row_index on
RECURSIVE search_rows(_, _, _, _)
search_rows(logs, columns, term, row_index) ==
    IF row_index >= Len(logs) THEN <<>>
    ELSE search_columns(logs[row_index + 1], row_index, columns, term, 0)
         \o search_rows(logs, columns, term, row_index + 1)

\* search_matches as _perform_search(search_term) builds it
find_matches(logs, columns, search_term_arg) ==
    search_rows(logs, columns, lower(search_term_arg), 0)

---------------------------------------------------------------------------
(* Inputs of the user.                                                     *)

\* texts the user leaves in the query box before running it: empty, a
\* comment line followed by the query PAY, the query "in" with blanks around
\* it (the placeholder of on_mount is the text of comments only)
QueryTexts ==
    { <<>>,
      <<"#", " ", "c", "\n", "P", "A", "Y">>,
      <<" ", "i", "n", "\n">> }

\* the characters of the typed texts: comment sign, blank, line break and
\* a letter
QueryAlphabet == {"#", " ", "\n", "a"}

\* terms the user types into the search dialog
SearchTermInputs ==
    { <<>>, <<"A">>, <<"I", "N", "F", "O">>, <<"-">> }

\* the texts on_mount and _load_initial_logs put into the query box (three
\* comment lines each, abbreviated to their first letters)
DevPlaceholder    == <<"#", "D", "\n", "#", "E", "\n", "#", "U">>
LoadingPlaceholder == <<"#", "C", "\n", "#", "L", "\n", "#", "U">>
LoadedPlaceholder  == <<"#", "C", "\n", "#", "R", "\n", "#", "U">>

Note(text, args) == [text |-> text, args |-> args]

Action(name, result, arg) == [name |-> name, result |-> result, arg |-> arg]

\* the event made no call to the remote collaborator
NoResponse == [kind |-> "none", records |-> <<>>]

\* self.details_heights
details_heights == <<5, 10, 15, 20, 30>>

\* `height: 10` of #log_details in the application's CSS
DetailsCssHeight == 10

---------------------------------------------------------------------------
(* datetime values and TimeRange.calculate_timeframe (models.py).  A       *)
(* datetime is a record of year .. microsecond in UTC; subtracting a       *)
(* timedelta goes through the day number of the date, as datetime does.    *)

is_leap(year) == year % 4 = 0 /\ (year % 100 # 0 \/ year % 400 = 0)

days_in_month(year, month) ==
    IF month = 2 THEN (IF is_leap(year) THEN 29 ELSE 28)
    ELSE IF month \in {4, 6, 9, 11} THEN 30 ELSE 31

RECURSIVE days_before_month(_, _)
days_before_month(year, month) ==
    IF month = 1 THEN 0
    ELSE days_before_month(year, month - 1) + days_in_month(year, month - 1)

days_before_year(year) ==
    LET y == year - 1 IN y * 365 + y \div 4 - y \div 100 + y \div 400

\* date.toordinal()
toordinal(d) ==
    days_before_year(d.year) + days_before_month(d.year, d.month) + d.day

\* the years the clock and the computed times lie in
ClockYears == 2023..2024

\* date.fromordinal(n), for a day of ClockYears
fromordinal(n) ==
    LET year  == CHOOSE y \in ClockYears :
                    days_before_year(y) < n /\ n <= days_before_year(y + 1)
        rest  == n - days_before_year(year)
        month == CHOOSE m \in 1..12 :
                    /\ days_before_month(year, m) < rest
                    /\ rest <= days_before_month(year, m)
                               + days_in_month(year, m)
    IN  [year |-> year, month |-> month,
         day |-> rest - days_before_month(year, month)]

\* timedelta(days=, hours=, minutes=), normalized to days and seconds
timedelta(days, hours, minutes) ==
    LET seconds == hours * 3600 + minutes * 60
    IN  [days |-> days + seconds \div 86400, seconds |-> seconds % 86400]

\* datetime - timedelta
datetime_sub(dt, delta) ==
    LET seconds == dt.hour * 3600 + dt.minute * 60 + dt.second - delta.seconds
        borrow  == IF seconds < 0 THEN 1 ELSE 0
        second  == seconds + 86400 * borrow
        date    == fromordinal(toordinal(dt) - delta.days - borrow)
    IN  [year |-> date.year, month |-> date.month, day |-> date.day,
         hour |-> second \div 3600, minute |-> (second % 3600) \div 60,
         second |-> second % 60, microsecond |-> dt.microsecond]

\* datetime.replace(hour=, minute=, second=, microsecond=)
replace(dt, hour, minute, second, microsecond) ==
    [dt EXCEPT !.hour = hour, !.minute = minute, !.second = second,
               !.microsecond = microsecond]

Pad6(n) == Pad2(n \div 10000) \o Pad2(n \div 100) \o Pad2(n)

\* datetime.isoformat() of a datetime in UTC: the fraction is left out when
\* microsecond is 0
isoformat(dt) ==
    Pad4(dt.year) \o <<"-">> \o Pad2(dt.month) \o <<"-">> \o Pad2(dt.day)
    \o <<"T">> \o Pad2(dt.hour) \o <<":">> \o Pad2(dt.minute)
    \o <<":">> \o Pad2(dt.second)
    \o (IF dt.microsecond # 0 THEN <<".">> \o Pad6(dt.microsecond) ELSE <<>>)
    \o <<"+", "0", "0", ":", "0", "0">>

\* the values of the options of the time range Select
TimeRanges == <<"30m", "60m", "2h", "6h", "today", "yesterday", "24h", "7d">>

\* the value of the Select when no option is chosen
SelectBlank == "Select.BLANK"

\* TimeRange.calculate_timeframe with `yesterday` ending at its start
timeframe_yesterday_from_midnight(time_range, clock) ==
    CASE time_range = "30m" ->
           [start |-> datetime_sub(clock, timedelta(0, 0, 30)),
            end |-> clock]
      [] time_range = "60m" ->
           [start |-> datetime_sub(clock, timedelta(0, 0, 60)),
            end |-> clock]
      [] time_range = "2h" ->
           [start |-> datetime_sub(clock, timedelta(0, 2, 0)),
            end |-> clock]
      [] time_range = "6h" ->
           [start |-> datetime_sub(clock, timedelta(0, 6, 0)),
            end |-> clock]
      [] time_range = "today" ->
           [start |-> replace(clock, 0, 0, 0, 0), end |-> clock]
      [] time_range = "yesterday" ->
           LET yesterday == datetime_sub(clock, timedelta(1, 0, 0))
           IN  [start |-> replace(yesterday, 0, 0, 0, 0),
                end |-> replace(yesterday, 0, 0, 0, 0)]
      [] time_range = "24h" ->
           [start |-> datetime_sub(clock, timedelta(0, 24, 0)),
            end |-> clock]
      [] time_range = "7d" ->
           [start |-> datetime_sub(clock, timedelta(7, 0, 0)),
            end |-> clock]
      [] OTHER ->
           [start |-> datetime_sub(clock, timedelta(0, 0, 30)),
            end |-> clock]

\* TimeRange.calculate_timeframe with no default branch for 30 minutes: an
\* unknown time range is answered like `7d`
timeframe_unknown_as_7d(time_range, clock) ==
    CASE time_range = "30m" ->
           [start |-> datetime_sub(clock, timedelta(0, 0, 30)),
            end |-> clock]
      [] time_range = "60m" ->
           [start |-> datetime_sub(clock, timedelta(0, 0, 60)),
            end |-> clock]
      [] time_range = "2h" ->
           [start |-> datetime_sub(clock, timedelta(0, 2, 0)),
            end |-> clock]
      [] time_range = "6h" ->
           [start |-> datetime_sub(clock, timedelta(0, 6, 0)),
            end |-> clock]
      [] time_range = "today" ->
           [start |-> replace(clock, 0, 0, 0, 0), end |-> clock]
      [] time_range = "yesterday" ->
           LET yesterday == datetime_sub(clock, timedelta(1, 0, 0))
           IN  [start |-> replace(yesterday, 0, 0, 0, 0),
                end |-> replace(yesterday, 23, 59, 59, 999999)]
      [] time_range = "24h" ->
           [start |-> datetime_sub(clock, timedelta(0, 24, 0)),
            end |-> clock]
      [] OTHER ->
           [start |-> datetime_sub(clock, timedelta(7, 0, 0)),
            end |-> clock]

\* TimeRange.calculate_timeframe(time_range) called when the clock shows
\* `clock`: its locals start and end
timeframe(time_range, clock) ==
    CASE time_range = "30m" ->
           [start |-> datetime_sub(clock, timedelta(0, 0, 30)),
            end |-> clock]
      [] time_range = "60m" ->
           [start |-> datetime_sub(clock, timedelta(0, 0, 60)),
            end |-> clock]
      [] time_range = "2h" ->
           [start |-> datetime_sub(clock, timedelta(0, 2, 0)),
            end |-> clock]
      [] time_range = "6h" ->
           [start |-> datetime_sub(clock, timedelta(0, 6, 0)),
            end |-> clock]
      [] time_range = "today" ->
           [start |-> replace(clock, 0, 0, 0, 0), end |-> clock]
      [] time_range = "yesterday" ->
           LET yesterday == datetime_sub(clock, timedelta(1, 0, 0))
           IN  [start |-> replace(yesterday, 0, 0, 0, 0),
                end |-> replace(yesterday, 23, 59, 59, 999999)]
      [] time_range = "24h" ->
           [start |-> datetime_sub(clock, timedelta(0, 24, 0)),
            end |-> clock]
      [] time_range = "7d" ->
           [start |-> datetime_sub(clock, timedelta(7, 0, 0)),
            end |-> clock]
      [] OTHER ->
           [start |-> datetime_sub(clock, timedelta(0, 0, 30)),
            end |-> clock]

\* what calculate_timeframe returns: the two times as ISO 8601 texts
calculate_timeframe(time_range, clock) ==
    LET times == timeframe(time_range, clock)
    IN  <<isoformat(times.start), isoformat(times.end)>>

\* the record of a call of calculate_timeframe from execute_query
TimeframeCall(time_range, clock) ==
    LET times == timeframe(time_range, clock)
    IN  [time_range |-> time_range, start |-> times.start,
         end |-> times.end,
         result |-> calculate_timeframe(time_range, clock)]

\* a datetime in UTC
Clock(year, month, day, hour, minute, second, microsecond) ==
    [year |-> year, month |-> month, day |-> day, hour |-> hour,
     minute |-> minute, second |-> second, microsecond |-> microsecond]

\* the times the clock shows: a morning, the first instants of a month
\* after a leap day and of a year, the last microsecond of a day
Clocks ==
    {Clock(2024, 3, 15, 10, 0, 0, 0), Clock(2024, 3, 1, 0, 0, 0, 0),
     Clock(2024, 1, 1, 0, 10, 0, 500000),
     Clock(2024, 3, 15, 23, 59, 59, 999999)}

---------------------------------------------------------------------------
(* The files of the two stores (query_manager.py) and the environment      *)
(* variables of the client (api_client.py).  A file is missing, has        *)
(* content json.load rejects, or holds a JSON list of dicts.               *)

NoFile == [kind |-> "missing", data |-> <<>>]
UnparsableFile == [kind |-> "unparsable", data |-> <<>>]
JsonFile(data) == [kind |-> "json", data |-> data]

\* HistoryQuery.to_dict and from_dict (executed_at is not modelled)
HistoryQuery_to_dict(entry) == [query |-> entry]
HistoryQuery_from_dict(data) == data.query

\* SavedQuery.to_dict and from_dict (created_at is not modelled)
SavedQuery_to_dict(entry) == [name |-> entry.name, query |-> entry.query]
SavedQuery_from_dict(data) == [name |-> data.name, query |-> data.query]

\* the dicts from_dict takes without a KeyError
HasKeys(data, keys) == keys \subseteq DOMAIN data

\* the entries of `data` that have the keys
RECURSIVE EntriesWithKeys(_, _)
EntriesWithKeys(data, keys) ==
    IF data = <<>> THEN <<>>
    ELSE (IF HasKeys(Head(data), keys) THEN <<Head(data)>> ELSE <<>>)
         \o EntriesWithKeys(Tail(data), keys)

\* load_history with the try block around one entry: the entries that
\* cannot be read are left out
load_history_skipping_bad_entries(file) ==
    IF file.kind # "missing"
    THEN IF file.kind = "json"
         THEN LET good == EntriesWithKeys(file.data, {"query"})
              IN  [i \in 1..Len(good) |-> HistoryQuery_from_dict(good[i])]
         ELSE <<>>
    ELSE <<>>

\* QueryHistory.load_history
load_history(file) ==
    IF file.kind # "missing"
    THEN IF /\ file.kind = "json"
            /\ \A i \in 1..Len(file.data) : HasKeys(file.data[i], {"query"})
         THEN [i \in 1..Len(file.data) |-> HistoryQuery_from_dict(file.data[i])]
         ELSE <<>>
    ELSE <<>>

\* QueryManager.load_queries
load_queries(file) ==
    IF file.kind # "missing"
    THEN IF /\ file.kind = "json"
            /\ \A i \in 1..Len(file.data) :
                  HasKeys(file.data[i], {"name", "query"})
         THEN [i \in 1..Len(file.data) |-> SavedQuery_from_dict(file.data[i])]
         ELSE <<>>
    ELSE <<>>

\* what save_history writes with the first entry of the list left out
history_dump_without_first(history) ==
    JsonFile([i \in 1..(Len(history) - 1) |->
                 HistoryQuery_to_dict(history[i + 1])])

\* the file save_history writes
history_dump(history) ==
    JsonFile([i \in 1..Len(history) |-> HistoryQuery_to_dict(history[i])])

\* the file save_queries writes
queries_dump(queries) ==
    JsonFile([i \in 1..Len(queries) |-> SavedQuery_to_dict(queries[i])])

\* the outcomes of save_history and save_queries: the file is written, or
\* open() or json.dump raises
FileWritten == BOOLEAN

\* the file after `with open(filename, 'w')` and json.dump: the dump, or,
\* when open() raised, the file as it was and, when json.dump raised, what
\* was written of it
written_file(file, dump, written) ==
    IF written THEN {dump} ELSE {file, UnparsableFile}

\* the files the two stores may find at the start: none, content that is
\* no JSON, a list with an entry that has no query, and a list of one entry
StartFiles ==
    {NoFile, UnparsableFile,
     JsonFile(<<[name |-> <<"a">>, query |-> <<"x">>], [name |-> <<"b">>]>>),
     JsonFile(<<[name |-> <<"a">>, query |-> <<"x">>]>>)}

\* os.environ maps the names of the variables that are set to their values
Setting(name, settings) ==
    {<<>>} \cup {name :> value : value \in settings}

\* the environments the program is started in: each of the two variables
\* unset, set to the empty text, or set to a value
Environments ==
    {base_url @@ token :
        base_url \in Setting("DYNATRACE_BASE_URL", {<<>>, <<"u", "/">>}),
        token \in Setting("DYNATRACE_TOKEN", {<<>>, <<"t">>})}

\* both variables set
SetEnvironment ==
    ("DYNATRACE_BASE_URL" :> <<"u", "/">>) @@ ("DYNATRACE_TOKEN" :> <<"t">>)

\* the test of _get_config taking the empty text for a value
NotSet_when_unset(env, name) == name \notin DOMAIN env

\* os.getenv(name) is None or empty: the test `not value`
NotSet(env, name) == name \notin DOMAIN env \/ env[name] = <<>>

\* str.rstrip('/')
RECURSIVE rstrip_slash(_)
rstrip_slash(s) ==
    IF s # <<>> /\ s[Len(s)] = "/"
    THEN rstrip_slash(SubSeq(s, 1, Len(s) - 1))
    ELSE s

\* the names _get_config collects in missing_vars
missing_vars(env) ==
    (IF NotSet(env, "DYNATRACE_BASE_URL") THEN <<"DYNATRACE_BASE_URL">>
     ELSE <<>>)
    \o (IF NotSet(env, "DYNATRACE_TOKEN") THEN <<"DYNATRACE_TOKEN">> ELSE <<>>)

\* DynatraceClient(): base_url and token of _get_config when it returns
DynatraceClient(env) ==
    [base_url |-> rstrip_slash(env["DYNATRACE_BASE_URL"]),
     token |-> env["DYNATRACE_TOKEN"]]

---------------------------------------------------------------------------
(* Construction (main.py __init__).                                        *)

\* self.use_dummy_data is set with development_mode
use_dummy_data == development_mode

\* __init__ in live mode leaves through sys.exit(1) when _get_config
\* raises ValueError
ExitsAtStart(development, env) ==
    ~development /\ missing_vars(env) # <<>>

\* the application object built in the environment env at the time clock,
\* with the files the two stores find
Construct(env, clock, history, queries) ==
    /\ environment = env
    /\ now = clock
    /\ history_file = history
    /\ queries_file = queries
    /\ development_mode \in BOOLEAN
    /\ dynatrace_client =
          IF development_mode \/ ExitsAtStart(development_mode, env)
          THEN <<>>
          ELSE <<DynatraceClient(env)>>
    /\ current_time_range = "30m"
    /\ selected_log = <<>>
    /\ log_details = <<>>
    /\ last_timeframe = <<>>
    /\ mounted = FALSE
    /\ all_logs \in (IF development_mode
                     THEN SeqsOf(SampleLogs, 1, MaxLogs)
                     ELSE {<<>>})
    /\ current_logs = all_logs
    /\ query_text = <<>>
    /\ query_history = load_history(history)
    /\ visible_columns = default_visible_columns
    /\ table_columns = <<>>
    /\ table_rows = <<>>
    /\ search_term = <<>>
    /\ search_matches = <<>>
    /\ current_match_index = -1
    /\ search_active = FALSE
    /\ current_details_index = 1
    /\ details_visible = TRUE
    /\ details_height = DetailsCssHeight
    /\ saved_queries = load_queries(queries)
    /\ history_deletes = 0
    /\ session = IF ExitsAtStart(development_mode, env)
                 THEN "exited" ELSE "running"
    /\ notifications = <<>>
    /\ last_response = NoResponse
    /\ last_action =
          IF ExitsAtStart(development_mode, env)
          THEN Action("init", "sys.exit(1)", missing_vars(env))
          ELSE Action("init", "", <<>>)

\* the time of the start when the claim is not about time
StartClock == Clock(2024, 3, 15, 10, 0, 0, 0)

\* the start with both variables set, no history file and no saved-queries
\* file
Init == Construct(SetEnvironment, StartClock, NoFile, NoFile)

---------------------------------------------------------------------------
(* on_mount and _load_initial_logs.                                        *)

on_mount ==
    /\ ~mounted
    /\ session = "running"
    /\ mounted' = TRUE
    /\ table_columns' = setup_table_columns(visible_columns)
    /\ IF development_mode
       THEN /\ current_logs' = current_logs
            /\ query_text' = DevPlaceholder
            /\ last_response' = NoResponse
            /\ notifications' =
                  <<Note("Development mode: Using dummy data for testing", <<>>)>>
       ELSE \E api_response \in ApiResponses :
              /\ last_response' = api_response
              /\ CASE api_response.kind = "error" ->
                     /\ current_logs' = <<>>
                     /\ query_text' = LoadingPlaceholder
                     /\ notifications' =
                           <<Note("Loading recent logs from Dynatrace...", <<>>),
                             Note("Failed to load logs", <<>>)>>
                [] api_response.kind = "raise" ->
                     /\ current_logs' = <<>>
                     /\ query_text' = LoadingPlaceholder
                     /\ notifications' =
                           <<Note("Loading recent logs from Dynatrace...", <<>>),
                             Note("Error loading initial logs", <<>>)>>
                [] OTHER ->
                     /\ current_logs' = convert_to_log_format(api_response)
                     /\ query_text' = LoadedPlaceholder
                     /\ notifications' =
                           <<Note("Loading recent logs from Dynatrace...", <<>>),
                             Note("Loaded recent logs from Dynatrace",
                                  <<Len(current_logs')>>)>>
    /\ table_rows' = populate_table(current_logs', visible_columns, search_term)
    /\ last_timeframe' =
          IF development_mode THEN last_timeframe
          ELSE <<TimeframeCall(current_time_range, now)>>
    /\ last_action' = Action("on_mount", "", <<>>)
    /\ UNCHANGED <<startVars, selectVars, all_logs, query_history,
                   history_file, visible_columns, searchVars, detailsVars,
                   saved_queries, queries_file, history_deletes, session>>

---------------------------------------------------------------------------
(* run_query and action_clear_query.                                       *)

\* the remote branches of run_query leaving current_logs alone on an error
\* response
remote_query_keeps_logs_on_error(before, failed, raised, completed) ==
    \E api_response \in ApiResponses :
      /\ last_response' = api_response
      /\ last_timeframe' = <<TimeframeCall(current_time_range, now)>>
      /\ CASE api_response.kind = "error" ->
                /\ current_logs' = current_logs
                /\ notifications' = before \o <<Note(failed, <<>>)>>
           [] api_response.kind = "raise" ->
                /\ current_logs' = <<>>
                /\ notifications' = before \o <<Note(raised, <<>>)>>
           [] OTHER ->
                /\ current_logs' = convert_to_log_format(api_response)
                /\ notifications' =
                      before \o <<Note(completed, <<Len(current_logs')>>)>>

\* the remote branches of run_query: the response of execute_query is an
\* error dict, makes the handler's try block raise, or is converted
remote_query(before, failed, raised, completed) ==
    \E api_response \in ApiResponses :
      /\ last_response' = api_response
      /\ last_timeframe' = <<TimeframeCall(current_time_range, now)>>
      /\ CASE api_response.kind = "error" ->
                /\ current_logs' = <<>>
                /\ notifications' = before \o <<Note(failed, <<>>)>>
           [] api_response.kind = "raise" ->
                /\ current_logs' = <<>>
                /\ notifications' = before \o <<Note(raised, <<>>)>>
           [] OTHER ->
                /\ current_logs' = convert_to_log_format(api_response)
                /\ notifications' =
                      before \o <<Note(completed, <<Len(current_logs')>>)>>

\* run_query whose reload (an empty query in live mode) also replaces
\* all_logs
run_query_reload_replaces_all_logs(query) ==
    LET actual_query == clean_query(query) IN
    /\ query_history' =
          IF actual_query # <<>>
          THEN history_add_query(query_history, actual_query)
          ELSE query_history
    /\ \E written \in (IF actual_query # <<>> THEN FileWritten ELSE {TRUE}) :
         /\ history_file' \in
               IF actual_query # <<>>
               THEN written_file(history_file, history_dump(query_history'),
                                 written)
               ELSE {history_file}
         /\ IF ~written
            THEN /\ session' = "crashed"
                 /\ notifications' = <<>>
                 /\ last_response' = NoResponse
                 /\ UNCHANGED <<current_logs, table_rows, last_timeframe>>
            ELSE
              /\ session' = session
              /\ IF actual_query # <<>>
                 THEN IF development_mode
                      THEN /\ current_logs' = filter_logs(all_logs, actual_query)
                           /\ last_response' = NoResponse
                           /\ last_timeframe' = last_timeframe
                           /\ notifications' =
                                 <<Note("Development mode: Filtering dummy data",
                                        <<>>)>>
                      ELSE IF use_dummy_data
                      THEN /\ current_logs' = filter_logs(all_logs, actual_query)
                           /\ last_response' = NoResponse
                           /\ last_timeframe' = last_timeframe
                           /\ notifications' = <<Note("Using dummy data", <<>>)>>
                      ELSE remote_query(<<Note("Executing query...", <<>>)>>,
                                        "Query failed", "Query error",
                                        "Query completed")
                 ELSE IF development_mode
                      THEN /\ current_logs' = all_logs
                           /\ last_response' = NoResponse
                           /\ last_timeframe' = last_timeframe
                           /\ notifications' = <<>>
                      ELSE remote_query(<<>>, "Failed to reload logs",
                                        "Error reloading logs",
                                        "Reloaded recent logs")
              /\ table_rows' =
                    populate_table(current_logs', visible_columns, search_term)
    /\ all_logs' = IF actual_query = <<>> /\ ~development_mode
                    THEN current_logs'
                    ELSE all_logs
    /\ UNCHANGED <<startVars, selectVars, mounted, visible_columns,
                   table_columns, searchVars, detailsVars, saved_queries,
                   queries_file, history_deletes>>

\* run_query filtering the records shown instead of all_logs
run_query_narrowing_current_logs(query) ==
    LET actual_query == clean_query(query) IN
    /\ query_history' =
          IF actual_query # <<>>
          THEN history_add_query(query_history, actual_query)
          ELSE query_history
    /\ \E written \in (IF actual_query # <<>> THEN FileWritten ELSE {TRUE}) :
         /\ history_file' \in
               IF actual_query # <<>>
               THEN written_file(history_file, history_dump(query_history'),
                                 written)
               ELSE {history_file}
         /\ IF ~written
            THEN /\ session' = "crashed"
                 /\ notifications' = <<>>
                 /\ last_response' = NoResponse
                 /\ UNCHANGED <<current_logs, table_rows, last_timeframe>>
            ELSE
              /\ session' = session
              /\ IF actual_query # <<>>
                 THEN IF development_mode
                      THEN /\ current_logs' = filter_logs(current_logs, actual_query)
                           /\ last_response' = NoResponse
                           /\ last_timeframe' = last_timeframe
                           /\ notifications' =
                                 <<Note("Development mode: Filtering dummy data",
                                        <<>>)>>
                      ELSE IF use_dummy_data
                      THEN /\ current_logs' = filter_logs(current_logs, actual_query)
                           /\ last_response' = NoResponse
                           /\ last_timeframe' = last_timeframe
                           /\ notifications' = <<Note("Using dummy data", <<>>)>>
                      ELSE remote_query(<<Note("Executing query...", <<>>)>>,
                                        "Query failed", "Query error",
                                        "Query completed")
                 ELSE IF development_mode
                      THEN /\ current_logs' = all_logs
                           /\ last_response' = NoResponse
                           /\ last_timeframe' = last_timeframe
                           /\ notifications' = <<>>
                      ELSE remote_query(<<>>, "Failed to reload logs",
                                        "Error reloading logs",
                                        "Reloaded recent logs")
              /\ table_rows' =
                    populate_table(current_logs', visible_columns, search_term)
    /\ UNCHANGED <<startVars, selectVars, mounted, all_logs, visible_columns,
                   table_columns, searchVars, detailsVars, saved_queries,
                   queries_file, history_deletes>>

\* run_query adding to the history the queries of development mode only
run_query_recording_offline_only(query) ==
    LET actual_query == clean_query(query) IN
    /\ query_history' =
          IF actual_query # <<>> /\ development_mode
          THEN history_add_query(query_history, actual_query)
          ELSE query_history
    /\ \E written \in (IF actual_query # <<>> THEN FileWritten ELSE {TRUE}) :
         /\ history_file' \in
               IF actual_query # <<>>
               THEN written_file(history_file, history_dump(query_history'),
                                 written)
               ELSE {history_file}
         /\ IF ~written
            THEN /\ session' = "crashed"
                 /\ notifications' = <<>>
                 /\ last_response' = NoResponse
                 /\ UNCHANGED <<current_logs, table_rows, last_timeframe>>
            ELSE
              /\ session' = session
              /\ IF actual_query # <<>>
                 THEN IF development_mode
                      THEN /\ current_logs' = filter_logs(all_logs, actual_query)
                           /\ last_response' = NoResponse
                           /\ last_timeframe' = last_timeframe
                           /\ notifications' =
                                 <<Note("Development mode: Filtering dummy data",
                                        <<>>)>>
                      ELSE IF use_dummy_data
                      THEN /\ current_logs' = filter_logs(all_logs, actual_query)
                           /\ last_response' = NoResponse
                           /\ last_timeframe' = last_timeframe
                           /\ notifications' = <<Note("Using dummy data", <<>>)>>
                      ELSE remote_query(<<Note("Executing query...", <<>>)>>,
                                        "Query failed", "Query error",
                                        "Query completed")
                 ELSE IF development_mode
                      THEN /\ current_logs' = all_logs
                           /\ last_response' = NoResponse
                           /\ last_timeframe' = last_timeframe
                           /\ notifications' = <<>>
                      ELSE remote_query(<<>>, "Failed to reload logs",
                                        "Error reloading logs",
                                        "Reloaded recent logs")
              /\ table_rows' =
                    populate_table(current_logs', visible_columns, search_term)
    /\ UNCHANGED <<startVars, selectVars, mounted, all_logs, visible_columns,
                   table_columns, searchVars, detailsVars, saved_queries,
                   queries_file, history_deletes>>

\* run_query(query): everything but the text box and the event record.
\* QueryHistory.add_query ends with save_history, outside every try block:
\* when the write raises, the handler ends there with the history already
\* changed in memory
run_query(query) ==
    LET actual_query == clean_query(query) IN
    /\ query_history' =
          IF actual_query # <<>>
          THEN history_add_query(query_history, actual_query)
          ELSE query_history
    /\ \E written \in (IF actual_query # <<>> THEN FileWritten ELSE {TRUE}) :
         /\ history_file' \in
               IF actual_query # <<>>
               THEN written_file(history_file, history_dump(query_history'),
                                 written)
               ELSE {history_file}
         /\ IF ~written
            THEN /\ session' = "crashed"
                 /\ notifications' = <<>>
                 /\ last_response' = NoResponse
                 /\ UNCHANGED <<current_logs, table_rows, last_timeframe>>
            ELSE
              /\ session' = session
              /\ IF actual_query # <<>>
                 THEN IF development_mode
                      THEN /\ current_logs' = filter_logs(all_logs, actual_query)
                           /\ last_response' = NoResponse
                           /\ last_timeframe' = last_timeframe
                           /\ notifications' =
                                 <<Note("Development mode: Filtering dummy data",
                                        <<>>)>>
                      ELSE IF use_dummy_data
                      THEN /\ current_logs' = filter_logs(all_logs, actual_query)
                           /\ last_response' = NoResponse
                           /\ last_timeframe' = last_timeframe
                           /\ notifications' = <<Note("Using dummy data", <<>>)>>
                      ELSE remote_query(<<Note("Executing query...", <<>>)>>,
                                        "Query failed", "Query error",
                                        "Query completed")
                 ELSE IF development_mode
                      THEN /\ current_logs' = all_logs
                           /\ last_response' = NoResponse
                           /\ last_timeframe' = last_timeframe
                           /\ notifications' = <<>>
                      ELSE remote_query(<<>>, "Failed to reload logs",
                                        "Error reloading logs",
                                        "Reloaded recent logs")
              /\ table_rows' =
                    populate_table(current_logs', visible_columns, search_term)
    /\ UNCHANGED <<startVars, selectVars, mounted, all_logs, visible_columns,
                   table_columns, searchVars, detailsVars, saved_queries,
                   queries_file, history_deletes>>

\* the user leaves one of `texts` in the query box and presses ctrl+r (or
\* the Run button): action_run_query reads the box and calls run_query
run_query_event(texts) ==
    /\ mounted
    /\ session = "running"
    /\ \E text \in texts :
         /\ query_text' = text
         /\ run_query(text)
         /\ last_action' =
               IF session' = "crashed"
               THEN Action("uncaught_exception", "QueryHistory.add_query", text)
               ELSE Action("run_query", "", text)

\* action_run_query with the query box left as it is or holding one of
\* QueryTexts
action_run_query == run_query_event(QueryTexts \cup {query_text})

\* the texts of at most n characters of QueryAlphabet
TextsUpTo(n) == UNION {[1..k -> QueryAlphabet] : k \in 0..n}

\* action_run_query with a typed text in the query box, while the history
\* has fewer than MaxTypedEntries entries
action_run_typed_query ==
    /\ Len(query_history) < MaxTypedEntries
    /\ run_query_event(TextsUpTo(MaxQueryLen))

\* on_select_changed of the time range Select
on_select_changed ==
    /\ mounted
    /\ session = "running"
    /\ \E value \in {TimeRanges[i] : i \in DOMAIN TimeRanges} \cup {SelectBlank} :
         /\ current_time_range' = value
         /\ last_action' = Action("select_changed", "", value)
    /\ notifications' = <<>>
    /\ last_response' = NoResponse
    /\ UNCHANGED <<dataVars, selected_log, log_details, last_timeframe,
                   mounted, query_text, query_history, history_file,
                   visible_columns, tableVars, searchVars, detailsVars,
                   saved_queries, queries_file, history_deletes, session>>

\* on_data_table_row_selected dropping the selection for a row that
\* current_logs does not have
on_data_table_row_selected_drops ==
    /\ mounted
    /\ session = "running"
    /\ \E cursor_row \in 0..MaxLogs :
         /\ IF cursor_row < Len(current_logs)
            THEN /\ selected_log' = <<current_logs[cursor_row + 1]>>
                 /\ log_details' = <<current_logs[cursor_row + 1]>>
            ELSE /\ selected_log' = <<>>
                 /\ log_details' = log_details
         /\ last_action' = Action("row_selected", "", cursor_row)
    /\ notifications' = <<>>
    /\ last_response' = NoResponse
    /\ UNCHANGED <<dataVars, current_time_range, last_timeframe, mounted,
                   query_text, query_history, history_file, visible_columns,
                   tableVars, searchVars, detailsVars, saved_queries,
                   queries_file, history_deletes, session>>

\* on_data_table_row_selected with the row of the event
on_data_table_row_selected ==
    /\ mounted
    /\ session = "running"
    /\ \E cursor_row \in 0..MaxLogs :
         /\ IF cursor_row < Len(current_logs)
            THEN /\ selected_log' = <<current_logs[cursor_row + 1]>>
                 /\ log_details' = <<current_logs[cursor_row + 1]>>
            ELSE UNCHANGED <<selected_log, log_details>>
         /\ last_action' = Action("row_selected", "", cursor_row)
    /\ notifications' = <<>>
    /\ last_response' = NoResponse
    /\ UNCHANGED <<dataVars, current_time_range, last_timeframe, mounted,
                   query_text, query_history, history_file, visible_columns,
                   tableVars, searchVars, detailsVars, saved_queries,
                   queries_file, history_deletes, session>>

\* action_clear_query emptying the input only, with the filtered records
\* left in current_logs
action_clear_query_text_only ==
    /\ mounted
    /\ session = "running"
    /\ last_response' = NoResponse
    /\ UNCHANGED <<detailsVars, saved_queries, queries_file, history_deletes,
                   session>>
    /\ query_text' = <<>>
    /\ current_logs' = current_logs
    /\ table_rows' = populate_table(current_logs', visible_columns, search_term)
    /\ notifications' = <<>>
    /\ last_action' = Action("clear_query", "", <<>>)
    /\ UNCHANGED <<startVars, selectVars, last_timeframe, mounted, all_logs,
                   query_history, history_file, visible_columns,
                   table_columns, searchVars>>

action_clear_query ==
    /\ mounted
    /\ session = "running"
    /\ last_response' = NoResponse
    /\ UNCHANGED <<detailsVars, saved_queries, queries_file, history_deletes,
                   session>>
    /\ query_text' = <<>>
    /\ current_logs' = all_logs
    /\ table_rows' = populate_table(current_logs', visible_columns, search_term)
    /\ notifications' = <<>>
    /\ last_action' = Action("clear_query", "", <<>>)
    /\ UNCHANGED <<startVars, selectVars, last_timeframe, mounted, all_logs,
                   query_history, history_file, visible_columns,
                   table_columns, searchVars>>

---------------------------------------------------------------------------
(* Search actions (main.py action_search .. _clear_search).                *)

\* _navigate_to_match: the notification it ends with, if it does not return
\* early
navigate_to_match(matches, index) ==
    IF matches = <<>> \/ index < 0 THEN <<>>
    ELSE <<Note("Match", <<index + 1, Len(matches)>>)>>

\* _perform_search without the step to the first match
first_match_index_unset(matches) == -1

\* the index _perform_search leaves in current_match_index
first_match_index(matches) == IF matches # <<>> THEN 0 ELSE -1

perform_search(term) ==
    /\ search_term' = lower(term)
    /\ search_matches' = find_matches(current_logs, visible_columns, term)
    /\ search_active' = TRUE
    /\ table_rows' = populate_table(current_logs, visible_columns, search_term')
    /\ current_match_index' = first_match_index(search_matches')
    /\ notifications' =
          IF search_matches' # <<>>
          THEN navigate_to_match(search_matches', current_match_index')
               \o <<Note("Found matches", <<Len(search_matches')>>)>>
          ELSE <<Note("No matches found", <<>>)>>

\* _clear_search leaving current_match_index as it is
clear_search_keeps_index ==
    /\ search_term' = <<>>
    /\ search_matches' = <<>>
    /\ current_match_index' = current_match_index
    /\ search_active' = FALSE
    /\ table_rows' = populate_table(current_logs, visible_columns, search_term')
    /\ notifications' = <<Note("Search cleared", <<>>)>>

clear_search ==
    /\ search_term' = <<>>
    /\ search_matches' = <<>>
    /\ current_match_index' = -1
    /\ search_active' = FALSE
    /\ table_rows' = populate_table(current_logs, visible_columns, search_term')
    /\ notifications' = <<Note("Search cleared", <<>>)>>

\* the dialog results SearchModal can dismiss with
SearchResults ==
    {[action |-> "cancel", term |-> <<>>], [action |-> "clear", term |-> <<>>]}
    \cup {[action |-> "search", term |-> t] : t \in SearchTermInputs}

\* action_search with its callback handle_search_result
action_search ==
    /\ mounted
    /\ session = "running"
    /\ last_response' = NoResponse
    /\ UNCHANGED <<detailsVars, saved_queries, queries_file, history_deletes,
                   session>>
    /\ \E result \in SearchResults :
         /\ IF result.action = "search"
            THEN IF result.term # <<>>
                 THEN perform_search(result.term)
                 ELSE clear_search
            ELSE IF result.action = "clear"
            THEN clear_search
            ELSE /\ notifications' = <<>>
                 /\ UNCHANGED <<searchVars, table_rows>>
         /\ last_action' = Action("search", result.action, result.term)
    /\ UNCHANGED <<startVars, selectVars, last_timeframe, mounted, all_logs,
                   current_logs, query_text, query_history, history_file,
                   visible_columns, table_columns>>

\* the guard of action_search_next and action_search_prev
no_active_search == ~search_active \/ search_matches = <<>>

\* action_search_next stepping without the wrap-around
next_match_index_no_wrap(index, n) == index + 1

next_match_index(index, n) == (index + 1) % n

\* action_search_prev stopping at the first match instead of wrapping
prev_match_index_clamped(index, n) == IF index = 0 THEN 0 ELSE index - 1

prev_match_index(index, n) == (index - 1) % n

action_search_next ==
    /\ mounted
    /\ session = "running"
    /\ last_response' = NoResponse
    /\ UNCHANGED <<detailsVars, saved_queries, queries_file, history_deletes,
                   session>>
    /\ IF no_active_search
       THEN /\ notifications' = <<Note("No active search. Press / to search.", <<>>)>>
            /\ UNCHANGED searchVars
       ELSE /\ current_match_index' =
                  next_match_index(current_match_index, Len(search_matches))
            /\ notifications' =
                  navigate_to_match(search_matches, current_match_index')
            /\ UNCHANGED <<search_term, search_matches, search_active>>
    /\ last_action' = Action("search_next", "", <<>>)
    /\ UNCHANGED <<startVars, selectVars, last_timeframe, mounted, all_logs,
                   current_logs, query_text, query_history, history_file,
                   visible_columns, tableVars>>

action_search_prev ==
    /\ mounted
    /\ session = "running"
    /\ last_response' = NoResponse
    /\ UNCHANGED <<detailsVars, saved_queries, queries_file, history_deletes,
                   session>>
    /\ IF no_active_search
       THEN /\ notifications' = <<Note("No active search. Press / to search.", <<>>)>>
            /\ UNCHANGED searchVars
       ELSE /\ current_match_index' =
                  prev_match_index(current_match_index, Len(search_matches))
            /\ notifications' =
                  navigate_to_match(search_matches, current_match_index')
            /\ UNCHANGED <<search_term, search_matches, search_active>>
    /\ last_action' = Action("search_prev", "", <<>>)
    /\ UNCHANGED <<startVars, selectVars, last_timeframe, mounted, all_logs,
                   current_logs, query_text, query_history, history_file,
                   visible_columns, tableVars>>

action_clear_search ==
    /\ mounted
    /\ session = "running"
    /\ last_response' = NoResponse
    /\ UNCHANGED <<detailsVars, saved_queries, queries_file, history_deletes,
                   session>>
    /\ clear_search
    /\ last_action' = Action("clear_search", "", <<>>)
    /\ UNCHANGED <<startVars, selectVars, last_timeframe, mounted, all_logs,
                   current_logs, query_text, query_history, history_file,
                   visible_columns, table_columns>>

---------------------------------------------------------------------------
(* Column selection (main.py action_column_selection and the modal).       *)

\* the column whose checkbox the user changes in the main specification:
\* unchecking the first column shifts every other one, checking it again
\* appends it
ToggledColumns == {"Timestamp"}

\* the columns whose checkbox the user changes in SpecColumnOrder: two
\* visible ones and three of the others
ToggledColumnsOrder ==
    {"Timestamp", "Host", "Content", "CPU Usage", "Cache Hit"}

\* the columns whose checkbox the user changes in SpecColumns
ToggledColumnsWide ==
    {"Timestamp", "Level", "Service", "Message", "Host", "Content"}

\* the sets of checked boxes the user can leave behind: none at all, or the
\* visible columns with boxes of `toggled` changed
CheckedSets(toggled) ==
    {{}} \cup
    {(Range(visible_columns) \ off) \cup on :
        off \in SUBSET (Range(visible_columns) \cap toggled),
        on  \in SUBSET (toggled \ Range(visible_columns))}

\* handle_column_result without the emptiness test
columns_accepted_always(new_columns) == TRUE

\* `if new_columns:` in handle_column_result
columns_accepted(new_columns) == new_columns # <<>>

\* action_column_selection with its callback handle_column_result
action_column_selection(toggled) ==
    /\ mounted
    /\ session = "running"
    /\ last_response' = NoResponse
    /\ UNCHANGED <<detailsVars, saved_queries, queries_file, history_deletes,
                   session>>
    /\ LET checkboxes == modal_checkboxes(all_columns, visible_columns)
           results ==
               {[action |-> "cancel", columns |-> <<>>]} \cup
               {[action |-> "apply", columns |-> modal_apply(checkboxes, checked)] :
                   checked \in CheckedSets(toggled)}
       IN \E result \in results :
            /\ IF result.action = "apply"
               THEN IF columns_accepted(result.columns)
                    THEN /\ visible_columns' = result.columns
                         /\ table_columns' = setup_table_columns(visible_columns')
                         /\ table_rows' =
                               populate_table(current_logs, visible_columns',
                                              search_term)
                         /\ notifications' =
                               <<Note("Updated columns", <<>>)>>
                    ELSE /\ notifications' =
                               <<Note("At least one column must be selected", <<>>)>>
                         /\ UNCHANGED <<visible_columns, tableVars>>
               ELSE /\ notifications' = <<>>
                    /\ UNCHANGED <<visible_columns, tableVars>>
            /\ last_action' =
                  Action("column_selection", result.action, result.columns)
    /\ UNCHANGED <<startVars, selectVars, last_timeframe, mounted, all_logs,
                   current_logs, query_text, query_history, history_file,
                   searchVars>>

---------------------------------------------------------------------------
(* Log details pane (main.py action_increase_details .. _update_details_   *)
(* height).                                                                *)

\* _update_details_height showing the height of the level while hidden
update_details_height_ignores_hidden(visible, index) ==
    details_heights[index + 1]

\* _update_details_height: the height it sets on the pane
update_details_height(visible, index) ==
    IF visible THEN details_heights[index + 1] ELSE 0

\* action_increase_details going straight to the highest level
action_increase_details_to_top ==
    /\ mounted
    /\ session = "running"
    /\ IF details_visible /\ current_details_index < Len(details_heights) - 1
       THEN /\ current_details_index' = Len(details_heights) - 1
            /\ details_visible' = details_visible
            /\ details_height' =
                  update_details_height(details_visible', current_details_index')
            /\ notifications' = <<>>
       ELSE IF ~details_visible
       THEN /\ details_visible' = TRUE
            /\ current_details_index' = current_details_index
            /\ details_height' =
                  update_details_height(details_visible', current_details_index')
            /\ notifications' =
                  <<Note("Log details shown",
                         <<details_heights[current_details_index + 1]>>)>>
       ELSE /\ notifications' = <<>>
            /\ UNCHANGED detailsVars
    /\ last_response' = NoResponse
    /\ last_action' = Action("increase_details", "", <<>>)
    /\ UNCHANGED <<dataVars, selectVars, last_timeframe, mounted, query_text,
                   query_history, history_file, visible_columns, tableVars,
                   searchVars, saved_queries, queries_file, history_deletes,
                   session>>

action_increase_details ==
    /\ mounted
    /\ session = "running"
    /\ IF details_visible /\ current_details_index < Len(details_heights) - 1
       THEN /\ current_details_index' = current_details_index + 1
            /\ details_visible' = details_visible
            /\ details_height' =
                  update_details_height(details_visible', current_details_index')
            /\ notifications' = <<>>
       ELSE IF ~details_visible
       THEN /\ details_visible' = TRUE
            /\ current_details_index' = current_details_index
            /\ details_height' =
                  update_details_height(details_visible', current_details_index')
            /\ notifications' =
                  <<Note("Log details shown",
                         <<details_heights[current_details_index + 1]>>)>>
       ELSE /\ notifications' = <<>>
            /\ UNCHANGED detailsVars
    /\ last_response' = NoResponse
    /\ last_action' = Action("increase_details", "", <<>>)
    /\ UNCHANGED <<dataVars, selectVars, last_timeframe, mounted, query_text,
                   query_history, history_file, visible_columns, tableVars,
                   searchVars, saved_queries, queries_file, history_deletes,
                   session>>

\* action_decrease_details doing nothing at the lowest level
action_decrease_details_stops_at_floor ==
    /\ mounted
    /\ session = "running"
    /\ IF details_visible /\ current_details_index > 0
       THEN /\ current_details_index' = current_details_index - 1
            /\ details_visible' = details_visible
            /\ details_height' =
                  update_details_height(details_visible', current_details_index')
       ELSE UNCHANGED detailsVars
    /\ notifications' = <<>>
    /\ last_response' = NoResponse
    /\ last_action' = Action("decrease_details", "", <<>>)
    /\ UNCHANGED <<dataVars, selectVars, last_timeframe, mounted, query_text,
                   query_history, history_file, visible_columns, tableVars,
                   searchVars, saved_queries, queries_file, history_deletes,
                   session>>

\* action_decrease_details lowering the level of a hidden pane too
action_decrease_details_while_hidden ==
    /\ mounted
    /\ session = "running"
    /\ IF current_details_index > 0
       THEN /\ current_details_index' = current_details_index - 1
            /\ details_visible' = details_visible
            /\ details_height' =
                  update_details_height(details_visible', current_details_index')
            /\ notifications' = <<>>
       ELSE IF details_visible /\ current_details_index = 0
       THEN /\ details_visible' = FALSE
            /\ current_details_index' = current_details_index
            /\ details_height' =
                  update_details_height(details_visible', current_details_index')
            /\ notifications' = <<Note("Log details hidden", <<>>)>>
       ELSE /\ notifications' = <<>>
            /\ UNCHANGED detailsVars
    /\ last_response' = NoResponse
    /\ last_action' = Action("decrease_details", "", <<>>)
    /\ UNCHANGED <<dataVars, selectVars, last_timeframe, mounted, query_text,
                   query_history, history_file, visible_columns, tableVars,
                   searchVars, saved_queries, queries_file, history_deletes,
                   session>>

action_decrease_details ==
    /\ mounted
    /\ session = "running"
    /\ IF details_visible /\ current_details_index > 0
       THEN /\ current_details_index' = current_details_index - 1
            /\ details_visible' = details_visible
            /\ details_height' =
                  update_details_height(details_visible', current_details_index')
            /\ notifications' = <<>>
       ELSE IF details_visible /\ current_details_index = 0
       THEN /\ details_visible' = FALSE
            /\ current_details_index' = current_details_index
            /\ details_height' =
                  update_details_height(details_visible', current_details_index')
            /\ notifications' = <<Note("Log details hidden", <<>>)>>
       ELSE /\ notifications' = <<>>
            /\ UNCHANGED detailsVars
    /\ last_response' = NoResponse
    /\ last_action' = Action("decrease_details", "", <<>>)
    /\ UNCHANGED <<dataVars, selectVars, last_timeframe, mounted, query_text,
                   query_history, history_file, visible_columns, tableVars,
                   searchVars, saved_queries, queries_file, history_deletes,
                   session>>

action_toggle_details ==
    /\ mounted
    /\ session = "running"
    /\ details_visible' = ~details_visible
    /\ current_details_index' = current_details_index
    /\ details_height' =
          update_details_height(details_visible', current_details_index')
    /\ notifications' =
          IF ~details_visible' THEN <<Note("Log details hidden", <<>>)>>
          ELSE <<>>
    /\ last_response' = NoResponse
    /\ last_action' = Action("toggle_details", "", <<>>)
    /\ UNCHANGED <<dataVars, selectVars, last_timeframe, mounted, query_text,
                   query_history, history_file, visible_columns, tableVars,
                   searchVars, saved_queries, queries_file, history_deletes,
                   session>>

---------------------------------------------------------------------------
(* Query history dialog (main.py action_query_history and the modal).      *)

\* the rows of the history dialog the user highlights
HistoryIndexes == {0, 1}

\* the results QueryHistoryModal dismisses with: Load and Delete need a
\* highlighted row of the list shown
HistoryResults(recent) ==
    {[action |-> "cancel", index |-> 0], [action |-> "clear_all", index |-> 0]}
    \cup {[action |-> a, index |-> i] :
             a \in {"load", "delete"},
             i \in HistoryIndexes \cap (0..(Len(recent) - 1))}

\* the end of a handler in which save_history or save_queries raised, called
\* by `method`
uncaught_exception(method, arg) ==
    /\ session' = "crashed"
    /\ notifications' = <<>>
    /\ last_action' = Action("uncaught_exception", method, arg)

\* action_query_history with its callback handle_history_result
action_query_history ==
    /\ mounted
    /\ session = "running"
    /\ last_response' = NoResponse
    /\ \E result \in HistoryResults(get_recent_queries(query_history)) :
         CASE result.action = "load" ->
                /\ query_text' = get_recent_queries(query_history)[result.index + 1]
                /\ notifications' = <<Note("Loaded query from history", <<>>)>>
                /\ last_action' = Action("query_history", "load", result.index)
                /\ UNCHANGED <<query_history, history_file, history_deletes, session>>
           [] result.action = "delete" ->
                /\ history_deletes < MaxHistoryDeletes
                /\ history_deletes' = history_deletes + 1
                /\ query_history' = clear_entry(query_history, result.index)
                /\ query_text' = query_text
                /\ IF clear_entry_accepts(query_history, result.index)
                   THEN \E written \in FileWritten :
                          /\ history_file' \in written_file(history_file, history_dump(query_history'), written)
                          /\ IF written
                             THEN /\ notifications' =
                                        <<Note("Query deleted from history", <<>>)>>
                                  /\ last_action' =
                                        Action("query_history", "delete", result.index)
                                  /\ session' = session
                             ELSE uncaught_exception("QueryHistory.clear_entry", result.index)
                   ELSE /\ history_file' = history_file
                        /\ notifications' = <<Note("Failed to delete query", <<>>)>>
                        /\ last_action' =
                              Action("query_history", "delete", result.index)
                        /\ session' = session
           [] result.action = "clear_all" ->
                /\ query_history' = <<>>
                /\ UNCHANGED <<query_text, history_deletes>>
                /\ \E written \in FileWritten :
                     /\ history_file' \in written_file(history_file, history_dump(query_history'), written)
                     /\ IF written
                        THEN /\ notifications' =
                                   <<Note("All query history cleared", <<>>)>>
                             /\ last_action' = Action("query_history", "clear_all", 0)
                             /\ session' = session
                        ELSE uncaught_exception("QueryHistory.clear_all", 0)
           [] OTHER ->
                /\ notifications' = <<>>
                /\ last_action' = Action("query_history", "cancel", 0)
                /\ UNCHANGED <<query_history, history_file, query_text,
                               history_deletes, session>>
    /\ UNCHANGED <<dataVars, selectVars, last_timeframe, mounted,
                   visible_columns, tableVars, searchVars, detailsVars,
                   saved_queries, queries_file>>

---------------------------------------------------------------------------
(* Saved queries (main.py action_save_query, action_load_query; the        *)
(* methods of QueryManager).                                               *)

\* the names typed into the save dialog, after its strip()
SaveNames == {<<"a">>, <<"A">>}

\* the results SaveQueryModal dismisses with
SaveResults(query) ==
    {[action |-> "cancel", name |-> <<>>, query |-> query]}
    \cup {[action |-> "save", name |-> n, query |-> query] : n \in SaveNames}

\* QueryManager.add_query(name, query) as a step: insert, save_queries,
\* return; `said` is what the caller is given or tells the user
add_query_step(event, name, query, said_true, said_false) ==
    /\ saved_queries' = manager_add_query(saved_queries, name, query)
    /\ IF manager_add_accepts(saved_queries, name, query)
       THEN \E written \in FileWritten :
              /\ queries_file' \in written_file(queries_file, queries_dump(saved_queries'), written)
              /\ IF written
                 THEN /\ notifications' = said_true
                      /\ last_action' = Action(event, "True", <<name, query>>)
                      /\ session' = session
                 ELSE uncaught_exception("QueryManager.add_query", <<name, query>>)
       ELSE /\ queries_file' = queries_file
            /\ notifications' = said_false
            /\ last_action' = Action(event, "False", <<name, query>>)
            /\ session' = session

\* action_save_query with its callback handle_save_result; the user leaves
\* `text` in the query box before pressing ctrl+s
action_save_query ==
    /\ mounted
    /\ session = "running"
    /\ last_response' = NoResponse
    /\ history_deletes' = history_deletes
    /\ \E text \in QueryTexts \cup {query_text} :
         /\ query_text' = text
         /\ LET query == clean_query(text) IN
            IF query = <<>>
            THEN /\ notifications' =
                       <<Note("Please enter a query to save", <<>>)>>
                 /\ last_action' = Action("save_query", "empty", <<>>)
                 /\ UNCHANGED <<saved_queries, queries_file, session>>
            ELSE \E result \in SaveResults(query) :
                   IF result.action = "save"
                   THEN add_query_step("save_query", result.name, result.query,
                                       <<Note("saved successfully", <<result.name>>)>>,
                                       <<Note("already exists", <<result.name>>)>>)
                   ELSE /\ notifications' = <<>>
                        /\ last_action' = Action("save_query", "cancel", <<>>)
                        /\ UNCHANGED <<saved_queries, queries_file, session>>
    /\ UNCHANGED <<dataVars, selectVars, last_timeframe, mounted,
                   query_history, history_file, visible_columns, tableVars,
                   searchVars, detailsVars>>

\* the results LoadQueryModal dismisses with: Load and Delete need a
\* highlighted row
LoadResults(queries) ==
    {[action |-> "cancel", index |-> 1]}
    \cup {[action |-> a, index |-> i] :
             a \in {"load", "delete"}, i \in 1..Len(queries)}

\* action_load_query with its callback handle_load_result
action_load_query ==
    /\ mounted
    /\ session = "running"
    /\ last_response' = NoResponse
    /\ history_deletes' = history_deletes
    /\ \E result \in LoadResults(saved_queries) :
         CASE result.action = "load" ->
                /\ query_text' = saved_queries[result.index].query
                /\ notifications' =
                      <<Note("Loaded query", <<saved_queries[result.index].name>>)>>
                /\ last_action' =
                      Action("load_query", "load", saved_queries[result.index].name)
                /\ UNCHANGED <<saved_queries, queries_file, session>>
           [] result.action = "delete" ->
                /\ saved_queries' =
                      manager_delete_query(saved_queries,
                                           saved_queries[result.index].name)
                /\ query_text' = query_text
                /\ \E written \in FileWritten :
                     /\ queries_file' \in written_file(queries_file, queries_dump(saved_queries'), written)
                     /\ IF written
                        THEN /\ notifications' =
                                   <<Note("deleted successfully",
                                          <<saved_queries[result.index].name>>)>>
                             /\ last_action' =
                                   Action("load_query", "delete",
                                          saved_queries[result.index].name)
                             /\ session' = session
                        ELSE uncaught_exception("QueryManager.delete_query",
                                                saved_queries[result.index].name)
           [] OTHER ->
                /\ notifications' = <<>>
                /\ last_action' = Action("load_query", "cancel", <<>>)
                /\ UNCHANGED <<saved_queries, queries_file, query_text, session>>
    /\ UNCHANGED <<dataVars, selectVars, last_timeframe, mounted,
                   query_history, history_file, visible_columns, tableVars,
                   searchVars, detailsVars>>

\* the arguments the methods of QueryManager are called with when they are
\* called directly: a query, a blank one, a name that is never saved
ManagerQueries == {<<"x">>, <<" ">>}
ManagerNames == SaveNames \cup {<<"b">>}

\* a call of QueryHistory.clear_entry(index), with any index from one below
\* the first to one past the length
QueryHistory_clear_entry ==
    /\ mounted
    /\ session = "running"
    /\ last_response' = NoResponse
    /\ history_deletes < MaxHistoryDeletes
    /\ history_deletes' = history_deletes + 1
    /\ \E index \in (-1)..(Len(query_history) + 1) :
         /\ query_history' = clear_entry(query_history, index)
         /\ IF clear_entry_accepts(query_history, index)
            THEN \E written \in FileWritten :
                   /\ history_file' \in
                         written_file(history_file,
                                      history_dump(query_history'), written)
                   /\ IF written
                      THEN /\ notifications' = <<>>
                           /\ last_action' = Action("clear_entry", "True", index)
                           /\ session' = session
                      ELSE uncaught_exception("QueryHistory.clear_entry", index)
            ELSE /\ history_file' = history_file
                 /\ notifications' = <<>>
                 /\ last_action' = Action("clear_entry", "False", index)
                 /\ session' = session
    /\ UNCHANGED <<dataVars, selectVars, last_timeframe, mounted, query_text,
                   visible_columns, tableVars, searchVars, detailsVars,
                   saved_queries, queries_file>>

\* a call of QueryManager.add_query(name, query)
QueryManager_add_query ==
    /\ mounted
    /\ session = "running"
    /\ last_response' = NoResponse
    /\ history_deletes' = history_deletes
    /\ \E name \in SaveNames, query \in ManagerQueries :
         add_query_step("add_query", name, query, <<>>, <<>>)
    /\ UNCHANGED <<dataVars, selectVars, last_timeframe, mounted, query_text,
                   query_history, history_file, visible_columns, tableVars,
                   searchVars, detailsVars>>

\* a call of QueryManager.delete_query(name)
QueryManager_delete_query ==
    /\ mounted
    /\ session = "running"
    /\ last_response' = NoResponse
    /\ history_deletes' = history_deletes
    /\ \E name \in ManagerNames :
         /\ saved_queries' = manager_delete_query(saved_queries, name)
         /\ \E written \in FileWritten :
              /\ queries_file' \in written_file(queries_file, queries_dump(saved_queries'), written)
              /\ IF written
                 THEN /\ notifications' = <<>>
                      /\ last_action' = Action("delete_query", "", name)
                      /\ session' = session
                 ELSE uncaught_exception("QueryManager.delete_query", name)
    /\ UNCHANGED <<dataVars, selectVars, last_timeframe, mounted, query_text,
                   query_history, history_file, visible_columns, tableVars,
                   searchVars, detailsVars>>

\* a call of QueryManager.update_query(name, new_query)
QueryManager_update_query ==
    /\ mounted
    /\ session = "running"
    /\ last_response' = NoResponse
    /\ history_deletes' = history_deletes
    /\ \E name \in ManagerNames, new_query \in ManagerQueries :
         /\ saved_queries' = manager_update_query(saved_queries, name, new_query)
         /\ IF manager_update_index(saved_queries, name) # 0
            THEN \E written \in FileWritten :
                   /\ queries_file' \in written_file(queries_file, queries_dump(saved_queries'), written)
                   /\ IF written
                      THEN /\ notifications' = <<>>
                           /\ last_action' =
                                 Action("update_query", "True", <<name, new_query>>)
                           /\ session' = session
                      ELSE uncaught_exception("QueryManager.update_query",
                                              <<name, new_query>>)
            ELSE /\ queries_file' = queries_file
                 /\ notifications' = <<>>
                 /\ last_action' =
                       Action("update_query", "False", <<name, new_query>>)
                 /\ session' = session
    /\ UNCHANGED <<dataVars, selectVars, last_timeframe, mounted, query_text,
                   query_history, history_file, visible_columns, tableVars,
                   searchVars, detailsVars>>

---------------------------------------------------------------------------
(* Specifications.                                                         *)

Next ==
    \/ on_mount
    \/ action_run_query
    \/ action_clear_query
    \/ action_search
    \/ action_search_next
    \/ action_search_prev
    \/ action_clear_search
    \/ action_column_selection(ToggledColumns)

Spec == Init /\ [][Next]_vars

\* the column dialog alone, with every default column and Content toggled
NextColumns ==
    \/ on_mount
    \/ action_column_selection(ToggledColumnsWide)

\* offline start with two records
InitColumns ==
    /\ Init
    /\ development_mode
    /\ all_logs = <<LogA, LogB>>

SpecColumns == InitColumns /\ [][NextColumns]_vars

\* the column dialog alone, with ToggledColumnsOrder
NextColumnOrder ==
    \/ on_mount
    \/ action_column_selection(ToggledColumnsOrder)

SpecColumnOrder == InitColumns /\ [][NextColumnOrder]_vars

\* the details pane keys, from every start of the application
NextDetails ==
    \/ on_mount
    \/ action_increase_details
    \/ action_decrease_details
    \/ action_toggle_details

SpecDetails == Init /\ [][NextDetails]_vars

\* the texts of the entries of a history file: q00, q01, ...
HistoryText(n) == <<"q">> \o Pad2(n)

\* the history file after the queries q01 .. qn of earlier sessions, the
\* most recent first
EarlierHistory(n) == [i \in 1..n |-> HistoryText(n + 1 - i)]

\* the histories the history file holds at the start: none, and a full one
StartHistories == {EarlierHistory(0), EarlierHistory(HistoryLimit)}

\* offline start with one record and a history of earlier sessions
InitHistory ==
    /\ \E history \in StartHistories :
          Construct(SetEnvironment, StartClock, history_dump(history), NoFile)
    /\ development_mode
    /\ all_logs = <<LogB>>

\* running queries and the history dialog
NextHistory ==
    \/ on_mount
    \/ action_run_query
    \/ action_query_history

SpecHistory == InitHistory /\ [][NextHistory]_vars

\* offline start with one record
InitSaved ==
    /\ Init
    /\ development_mode
    /\ all_logs = <<LogB>>

\* the save and load dialogs and the methods of QueryManager
NextSaved ==
    \/ on_mount
    \/ action_save_query
    \/ action_load_query
    \/ QueryManager_add_query
    \/ QueryManager_delete_query
    \/ QueryManager_update_query

SpecSaved == InitSaved /\ [][NextSaved]_vars

\* typed texts run offline on two records
InitClean ==
    /\ Init
    /\ development_mode
    /\ all_logs = <<LogA, LogB>>

NextClean ==
    \/ on_mount
    \/ action_run_typed_query

SpecClean == InitClean /\ [][NextClean]_vars

\* every environment and every pair of files at the start
InitStartup ==
    \E env \in Environments, history \in StartFiles, queries \in StartFiles :
        Construct(env, StartClock, history, queries)

NextStartup == on_mount

SpecStartup == InitStartup /\ [][NextStartup]_vars

\* offline start with one record and any pair of files
InitStores ==
    /\ \E history \in StartFiles, queries \in StartFiles :
          Construct(SetEnvironment, StartClock, history, queries)
    /\ development_mode
    /\ all_logs = <<LogB>>

\* the operations that change one of the two stores
NextStores ==
    \/ on_mount
    \/ action_run_query
    \/ action_query_history
    \/ QueryManager_add_query
    \/ QueryManager_delete_query

SpecStores == InitStores /\ [][NextStores]_vars

\* live start at each of the times of Clocks
InitTimeframe ==
    /\ \E clock \in Clocks : Construct(SetEnvironment, clock, NoFile, NoFile)
    /\ ~development_mode

\* queries in live mode with the time range chosen in the Select
NextTimeframe ==
    \/ on_mount
    \/ on_select_changed
    \/ action_run_query

SpecTimeframe == InitTimeframe /\ [][NextTimeframe]_vars

\* selecting rows between queries
NextSelect ==
    \/ on_mount
    \/ action_run_query
    \/ action_clear_query
    \/ on_data_table_row_selected

SpecSelect == Init /\ [][NextSelect]_vars

\* offline start with one record and a history of three earlier queries
InitClearEntry ==
    /\ Construct(SetEnvironment, StartClock,
                 history_dump(EarlierHistory(3)), NoFile)
    /\ development_mode
    /\ all_logs = <<LogB>>

\* running queries, the history dialog and direct calls of clear_entry
NextClearEntry ==
    \/ on_mount
    \/ action_run_query
    \/ action_query_history
    \/ QueryHistory_clear_entry

SpecClearEntry == InitClearEntry /\ [][NextClearEntry]_vars

\* every start of the application, after sessions that left three queries
\* in the history file and one saved query; development mode shows the
\* whole sample
InitAllLogs ==
    /\ Construct(SetEnvironment, StartClock,
                 history_dump(EarlierHistory(3)),
                 queries_dump(<<SavedQuery(<<"a">>, HistoryText(1))>>))
    /\ development_mode => all_logs = <<LogA, LogB>>

\* the events of each part of the interface
QueryEvents ==
    {"run_query", "clear_query", "search", "search_next", "search_prev",
     "clear_search", "column_selection"}
DetailsEvents == {"increase_details", "decrease_details", "toggle_details"}
TableEvents == {"row_selected", "select_changed"}
StoreEvents == {"save_query", "load_query", "query_history"}

\* since it was mounted the session has handled events of one part only
Within(events) == last_action.name \in events \cup {"on_mount"}

\* every user action of the application, in sessions that stay with one
\* part of the interface
NextAllLogs ==
    \/ on_mount
    \/ Within(QueryEvents) /\ action_run_query
    \/ Within(QueryEvents) /\ action_clear_query
    \/ Within(QueryEvents) /\ action_search
    \/ Within(QueryEvents) /\ action_search_next
    \/ Within(QueryEvents) /\ action_search_prev
    \/ Within(QueryEvents) /\ action_clear_search
    \/ Within(QueryEvents) /\ action_column_selection(ToggledColumns)
    \/ Within(DetailsEvents) /\ action_increase_details
    \/ Within(DetailsEvents) /\ action_decrease_details
    \/ Within(DetailsEvents) /\ action_toggle_details
    \/ Within(TableEvents) /\ on_data_table_row_selected
    \/ Within(TableEvents) /\ on_select_changed
    \/ Within(StoreEvents) /\ action_save_query
    \/ Within(StoreEvents) /\ action_load_query
    \/ Within(StoreEvents) /\ action_query_history

SpecAllLogs == InitAllLogs /\ [][NextAllLogs]_vars

---------------------------------------------------------------------------
(* Vocabulary of the properties.                                           *)

\* two characters equal up to letter case
SameLetter(a, b) ==
    \/ a = b
    \/ \E i \in 1..Len(UpperCase) : {a, b} = {UpperCase[i], LowerCase[i]}

\* q occurs in s as a contiguous run of characters, letter case ignored
OccursIgnoringCase(q, s) ==
    \E off \in 0..(Len(s) - Len(q)) :
        \A k \in 1..Len(q) : SameLetter(q[k], s[off + k])

\* q occurs in one of the four filtered fields of log
QueryMatches(q, log) ==
    \/ OccursIgnoringCase(q, log.message)
    \/ OccursIgnoringCase(q, log.service)
    \/ OccursIgnoringCase(q, log.level)
    \/ OccursIgnoringCase(q, log.content)

\* (r, c), zero-based, is a cell of current_logs x visible_columns that is
\* not in the Level column and whose text holds term
IsMatchCell(r, c, term) ==
    /\ r \in 0..(Len(current_logs) - 1)
    /\ c \in 0..(Len(visible_columns) - 1)
    /\ visible_columns[c + 1] # "Level"
    /\ OccursIgnoringCase(term, cell_text(current_logs[r + 1], visible_columns[c + 1]))

\* m lists its pairs in strictly ascending row-major order
RowMajor(m) ==
    \A i, j \in 1..Len(m) :
        i < j => \/ m[i][1] < m[j][1]
                 \/ m[i][1] = m[j][1] /\ m[i][2] < m[j][2]

SearchCleared ==
    search_term = <<>> /\ search_matches = <<>> /\ current_match_index = -1

NoDuplicates(s) == \A i, j \in 1..Len(s) : i # j => s[i] # s[j]

NoActiveSearchNote == <<Note("No active search. Press / to search.", <<>>)>>

---------------------------------------------------------------------------
(* Properties.                                                             *)

\* C1: in development (offline) mode, after run_query the current set is
\* the full set when the normalized query is empty, and otherwise exactly
\* the records of the full set, in its order, in which the normalized query
\* occurs, letter case ignored, in message, service, level or content.
C1_OfflineQueryFilter ==
    (last_action.name = "run_query" /\ development_mode) =>
        LET q == clean_query(last_action.arg)
        IN  IF q = <<>>
            THEN current_logs = all_logs
            ELSE current_logs = SelectSeq(all_logs, LAMBDA l : QueryMatches(q, l))

\* a query that kept one record of a two-record full set and dropped the other
C1_Witness ==
    /\ last_action.name = "run_query"
    /\ development_mode
    /\ clean_query(last_action.arg) # <<>>
    /\ Len(all_logs) = 2
    /\ Len(current_logs) = 1

\* C2: after a search with a non-empty term, search_matches holds exactly
\* the cells (r, c) of current_logs x visible_columns outside the Level
\* column whose text contains the term, letter case ignored, each once, in
\* ascending row-major order.
C2_SearchMatchesRowMajor ==
    (last_action.name = "search" /\ last_action.result = "search"
        /\ last_action.arg # <<>>) =>
        /\ \A i \in 1..Len(search_matches) :
              IsMatchCell(search_matches[i][1], search_matches[i][2],
                          last_action.arg)
        /\ \A r \in 0..(Len(current_logs) - 1), c \in 0..(Len(visible_columns) - 1) :
              IsMatchCell(r, c, last_action.arg) =>
                  \E i \in 1..Len(search_matches) : search_matches[i] = <<r, c>>
        /\ RowMajor(search_matches)

\* a search that found cells in two rows and two cells in one row
C2_Witness ==
    /\ last_action.name = "search"
    /\ last_action.result = "search"
    /\ Len(search_matches) >= 3
    /\ \E i, j \in 1..Len(search_matches) :
          search_matches[i][1] # search_matches[j][1]
    /\ \E i, j \in 1..Len(search_matches) :
          /\ search_matches[i][1] = search_matches[j][1]
          /\ search_matches[i][2] # search_matches[j][2]

\* C3: when run_query or action_clear_query changes current_logs while a
\* search is active, afterwards search_matches is what a fresh search of the
\* same term over the new current_logs gives, or the search is cleared.
C3_QueryChangeRefreshesSearch ==
    [][ ( /\ last_action'.name \in {"run_query", "clear_query"}
          /\ current_logs' # current_logs
          /\ search_term # <<>> )
        => \/ /\ search_term' = search_term
              /\ search_matches' =
                    find_matches(current_logs', visible_columns', search_term')
           \/ SearchCleared' ]_vars

\* C4: when the column dialog replaces visible_columns while a search is
\* active, afterwards search_matches is what a fresh search of the same term
\* over the new visible_columns gives, or the search is cleared.
C4_ColumnChangeRefreshesSearch ==
    [][ ( /\ last_action'.name = "column_selection"
          /\ visible_columns' # visible_columns
          /\ search_term # <<>> )
        => \/ /\ search_term' = search_term
              /\ search_matches' =
                    find_matches(current_logs', visible_columns', search_term')
           \/ SearchCleared' ]_vars

\* C5: every stored match (r, c) is a cell of the displayed table:
\* 0 <= r < len(current_logs) and 0 <= c < len(visible_columns).
C5_MatchesInBounds ==
    \A i \in 1..Len(search_matches) :
        /\ search_matches[i][1] \in 0..(Len(current_logs) - 1)
        /\ search_matches[i][2] \in 0..(Len(visible_columns) - 1)

\* C6: current_match_index is -1 or an index into search_matches.
C6_CursorValid ==
    \/ current_match_index = -1
    \/ current_match_index \in 0..(Len(search_matches) - 1)

\* the cursor on the last of several matches
C6_Witness ==
    /\ Len(search_matches) >= 3
    /\ current_match_index = Len(search_matches) - 1
    /\ last_action.name = "search_next"

\* C7: with N >= 1 matches, next sets the cursor to (cursor + 1) mod N and
\* prev to (cursor - 1 + N) mod N, so next from N - 1 gives 0, prev from 0
\* gives N - 1; neither changes search_term or search_matches.
C7_NextPrevCycle ==
    [][ LET N == Len(search_matches) IN
        /\ (last_action'.name = "search_next" /\ N >= 1) =>
              /\ current_match_index' = (current_match_index + 1) % N
              /\ current_match_index = N - 1 => current_match_index' = 0
              /\ UNCHANGED <<search_term, search_matches>>
        /\ (last_action'.name = "search_prev" /\ N >= 1) =>
              /\ current_match_index' = (current_match_index - 1 + N) % N
              /\ current_match_index = 0 => current_match_index' = N - 1
              /\ UNCHANGED <<search_term, search_matches>> ]_vars

\* prev has wrapped from the first match to the last of at least three
C7_Witness ==
    /\ last_action.name = "search_prev"
    /\ Len(search_matches) >= 3
    /\ current_match_index = Len(search_matches) - 1

\* C8: with an empty search term search_matches is empty and the cursor is
\* -1; next and prev on an empty search_matches change none of term, matches
\* and cursor and notify that no search is active.
C8_EmptySearchIsInactive ==
    /\ [](search_term = <<>> =>
            search_matches = <<>> /\ current_match_index = -1)
    /\ [][ ( /\ last_action'.name \in {"search_next", "search_prev"}
             /\ search_matches = <<>> )
           => /\ UNCHANGED <<search_term, search_matches, current_match_index>>
              /\ notifications' = NoActiveSearchNote ]_vars

\* next was pressed on an active search that had found nothing
C8_Witness ==
    /\ last_action.name = "search_next"
    /\ search_term # <<>>
    /\ search_active
    /\ search_matches = <<>>
    /\ notifications = NoActiveSearchNote

\* C9: Apply with no box checked changes nothing but notifies that at least
\* one column must be selected; Cancel changes nothing either.
C9_EmptySelectionRejected ==
    [][ ( /\ last_action'.name = "column_selection"
          /\ \/ last_action'.result = "cancel"
             \/ last_action'.result = "apply" /\ last_action'.arg = <<>> )
        => /\ UNCHANGED <<visible_columns, table_columns, table_rows,
                          startVars, selectVars, last_timeframe, mounted,
                          all_logs, current_logs, query_text, query_history,
                          history_file, search_term, search_matches,
                          current_match_index, search_active>>
           /\ last_action'.result = "apply" =>
                 notifications' =
                     <<Note("At least one column must be selected", <<>>)>> ]_vars

\* an empty selection was applied while a search had matches
C9_Witness ==
    /\ last_action = Action("column_selection", "apply", <<>>)
    /\ search_matches # <<>>
    /\ visible_columns # default_visible_columns

\* C10: visible_columns is never empty, has no duplicates and holds only
\* names of all_columns.
C10_VisibleColumnsWellFormed ==
    /\ visible_columns # <<>>
    /\ NoDuplicates(visible_columns)
    /\ Range(visible_columns) \subseteq Range(all_columns)

\* an applied selection that put Content first and brought every default
\* column back behind it
C10_Witness ==
    /\ last_action.name = "column_selection"
    /\ last_action.result = "apply"
    /\ Len(visible_columns) = 6
    /\ visible_columns[1] = "Content"

\* C11: a decrease with the pane visible at the lowest level hides the pane
\* and leaves current_details_index alone; while the pane is hidden no step
\* changes current_details_index, and an increase with the pane hidden shows
\* it again at that index, with the height of that index.
C11_HideAtFloorShowAtSameLevel ==
    [][ /\ ( /\ last_action'.name = "decrease_details"
             /\ details_visible
             /\ current_details_index = 0 )
           => /\ ~details_visible'
              /\ current_details_index' = current_details_index
        /\ ~details_visible => current_details_index' = current_details_index
        /\ (last_action'.name = "increase_details" /\ ~details_visible)
           => /\ details_visible'
              /\ details_height' = details_heights[current_details_index + 1]
      ]_vars

\* the pane shown again by an increase at a level that is not the default
C11_Witness ==
    /\ last_action.name = "increase_details"
    /\ notifications = <<Note("Log details shown", <<20>>)>>
    /\ details_visible
    /\ current_details_index = 3

\* C12: current_details_index is an index of details_heights, and the height
\* of the pane is 0 while it is hidden and details_heights at the index
\* while it is visible.
C12_DetailsHeightMatchesLevel ==
    /\ current_details_index \in 0..(Len(details_heights) - 1)
    /\ details_height = IF details_visible
                        THEN details_heights[current_details_index + 1]
                        ELSE 0

\* the pane hidden at the highest level
C12_Witness ==
    /\ ~details_visible
    /\ current_details_index = 4
    /\ details_height = 0

\* a query text as clean_query leaves it: not empty, no blank line, no
\* comment line, no white space around it
IsNormalizedQuery(q) ==
    /\ q # <<>>
    /\ strip(q) = q
    /\ \A k \in 1..Len(split_lines(q)) :
          LET line == split_lines(q)[k]
          IN  /\ \E j \in 1..Len(line) : line[j] \notin Whitespace
              /\ lstrip(line)[1] # "#"

\* the list s without the entries equal to x
RECURSIVE Without(_, _)
Without(s, x) ==
    IF s = <<>> THEN <<>>
    ELSE IF Head(s) = x THEN Without(Tail(s), x)
    ELSE <<Head(s)>> \o Without(Tail(s), x)

\* C13: the history never has more than 50 entries, never has the same text
\* twice, and every text in it is a non-empty query without comment lines
\* and blank lines, whatever queries are run and whatever the history
\* dialog deletes or clears.
C13_HistoryWellFormed ==
    /\ Len(query_history) <= HistoryLimit
    /\ NoDuplicates(query_history)
    /\ \A i \in 1..Len(query_history) : IsNormalizedQuery(query_history[i])

\* a full history again after an entry was deleted and a query typed with a
\* comment line was run
C13_Witness ==
    /\ Len(query_history) = HistoryLimit
    /\ history_deletes > 0
    /\ query_history[1] = <<"P", "A", "Y">>

\* C14: add_query with a non-empty normalized query q leaves q followed by
\* the earlier entries other than q in their order, cut to the first 50; the
\* length stays when q was in the history, and a new q added to 50 entries
\* drops exactly the last one.
C14_HistoryAddMovesToFront ==
    [][ ( /\ \/ last_action'.name = "run_query"
             \/ /\ last_action'.name = "uncaught_exception"
                /\ last_action'.result = "QueryHistory.add_query"
          /\ clean_query(last_action'.arg) # <<>> )
        => LET q == clean_query(last_action'.arg)
               moved == <<q>> \o Without(query_history, q)
           IN  /\ query_history' =
                     IF Len(moved) > 50 THEN SubSeq(moved, 1, 50) ELSE moved
               /\ (\E i \in 1..Len(query_history) : query_history[i] = q)
                     => Len(query_history') = Len(query_history)
               /\ ( /\ \A i \in 1..Len(query_history) : query_history[i] # q
                    /\ Len(query_history) = 50 )
                     => query_history' = <<q>> \o SubSeq(query_history, 1, 49)
      ]_vars

\* a new query run on the full history file: the oldest entry q01 is gone
C14_Witness ==
    /\ last_action.name = "run_query"
    /\ history_deletes = 0
    /\ Len(query_history) = HistoryLimit
    /\ query_history[1] = <<"P", "A", "Y">>
    /\ query_history[HistoryLimit] = HistoryText(2)

\* an entry named `name` is among the saved queries
HasName(queries, name) == \E i \in 1..Len(queries) : queries[i].name = name

\* a call of QueryManager.add_query that returned, from the save dialog or
\* direct
AddReturned(a) ==
    a.name \in {"add_query", "save_query"} /\ a.result \in {"True", "False"}

RECURSIVE WithoutName(_, _)
WithoutName(queries, name) ==
    IF queries = <<>> THEN <<>>
    ELSE IF Head(queries).name = name THEN WithoutName(Tail(queries), name)
    ELSE <<Head(queries)>> \o WithoutName(Tail(queries), name)

\* C16: no two saved queries have the same name; delete_query(name) leaves
\* the entries with other names in their order, which is the whole list when
\* no entry has the name.
C16_SavedNamesUnique ==
    /\ [](\A i, j \in 1..Len(saved_queries) :
             i # j => saved_queries[i].name # saved_queries[j].name)
    /\ [][ ( \/ last_action'.name = "delete_query"
             \/ last_action'.name = "load_query" /\ last_action'.result = "delete" )
           => LET name == last_action'.arg
              IN  /\ ~HasName(saved_queries', name)
                  /\ saved_queries' = WithoutName(saved_queries, name)
                  /\ ~HasName(saved_queries, name)
                        => saved_queries' = saved_queries
         ]_vars

\* a name that is not saved was deleted and both saved queries are still
\* there, one of them updated
C16_Witness ==
    /\ last_action = Action("delete_query", "", <<"b">>)
    /\ Len(saved_queries) = 2
    /\ \E i \in 1..2 : saved_queries[i].query = <<" ">>

\* the notifications of run_query that tell the user of a failure
QueryFailureNotes ==
    {Note(t, <<>>) : t \in {"Query failed", "Query error",
                            "Failed to reload logs", "Error reloading logs"}}

\* C17: after run_query in live mode, when the call of the collaborator
\* failed (an error response or an exception) current_logs is empty and the
\* last notification tells the failure; when it succeeded current_logs is
\* the converted records of the response and nothing else.
C17_RemoteFailureEmptiesCurrent ==
    (last_action.name = "run_query" /\ ~development_mode) =>
        /\ last_response.kind \in {"error", "raise", "ok"}
        /\ last_response.kind \in {"error", "raise"} =>
              /\ current_logs = <<>>
              /\ notifications # <<>>
              /\ notifications[Len(notifications)] \in QueryFailureNotes
        /\ last_response.kind = "ok" =>
              /\ current_logs = convert_to_log_format(last_response)
              /\ notifications # <<>>
              /\ notifications[Len(notifications)] \notin QueryFailureNotes

\* a query that the collaborator answered with an error: no records, an
\* empty table and the two notifications
C17_Witness ==
    /\ last_action.name = "run_query"
    /\ clean_query(last_action.arg) # <<>>
    /\ last_response.kind = "error"
    /\ current_logs = <<>>
    /\ table_rows = <<>>
    /\ notifications = <<Note("Executing query...", <<>>),
                         Note("Query failed", <<>>)>>

\* C19: no handler ends in an uncaught exception: the session is running in
\* every reachable state.
C19_NoUncaughtException == session = "running"

\* the records of a response that parse, converted, in the order of the
\* response
RECURSIVE ParseableRecords(_)
ParseableRecords(records) ==
    IF records = <<>> THEN <<>>
    ELSE IF Head(records).parse = "ok"
    THEN <<Head(records).log>> \o ParseableRecords(Tail(records))
    ELSE ParseableRecords(Tail(records))

\* C20: after a successful response current_logs holds exactly the records
\* of the response that parse, converted, in the order of the response.
C20_OnlyMalformedRecordsDropped ==
    last_response.kind = "ok" =>
        current_logs = ParseableRecords(last_response.records)

---------------------------------------------------------------------------
(* Start-up load, clearing and the two record lists.                       *)

\* C21: when the start-up load has completed successfully, in development
\* mode and in live mode alike, all_logs and current_logs both hold the
\* loaded records (all_logs = current_logs).
C21_StartupLoadFillsBothLists ==
    (last_action.name = "on_mount"
        /\ (development_mode \/ last_response.kind = "ok")) =>
        all_logs = current_logs

\* s is t with some elements left out, the others in the order of t
RECURSIVE IsSubsequence(_, _)
IsSubsequence(s, t) ==
    IF s = <<>> THEN TRUE
    ELSE IF t = <<>> THEN FALSE
    ELSE IF Head(s) = Head(t) THEN IsSubsequence(Tail(s), Tail(t))
    ELSE IsSubsequence(s, Tail(t))

\* C28: in development mode current_logs is a subsequence of all_logs in
\* every reachable state: records of all_logs, in the order of all_logs.
C28_CurrentIsSubsequenceOfFull ==
    development_mode => IsSubsequence(current_logs, all_logs)

\* a query was run in development mode that kept the second of two
\* records and dropped the first
C28_Witness ==
    /\ development_mode
    /\ last_action.name = "run_query"
    /\ Len(all_logs) = 2
    /\ current_logs = <<all_logs[2]>>
    /\ all_logs[1] # all_logs[2]

\* C29: action_clear_query sets current_logs to all_logs, whatever the query
\* text and current_logs were, and leaves all_logs, visible_columns and
\* query_history as they were.
C29_ClearShowsAllAndKeepsTheRest ==
    [][last_action'.name = "clear_query" =>
          /\ current_logs' = all_logs
          /\ all_logs' = all_logs
          /\ visible_columns' = visible_columns
          /\ query_history' = query_history]_vars

\* the query was cleared: both records are shown again, the history still
\* has its entry and the hidden column is still hidden
C29_Witness ==
    /\ last_action.name = "clear_query"
    /\ query_history # <<>>
    /\ Len(all_logs) = 2
    /\ current_logs = all_logs
    /\ table_rows # <<>>
    /\ visible_columns # default_visible_columns

---------------------------------------------------------------------------
(* Start-up: configuration and the files of the two stores.                *)

\* the variable is unset or set to the empty text
Missing(name) == name \notin DOMAIN environment \/ environment[name] = <<>>

\* the names of the two settings that are missing, base address first
MissingSettings ==
    SelectSeq(<<"DYNATRACE_BASE_URL", "DYNATRACE_TOKEN">>, Missing)

\* C22: a live start in which the base address or the token is missing ends
\* the process before any UI is mounted, with a message that names the
\* missing settings; a live start with both present builds the client from
\* them; a start in development mode runs without a client whatever the
\* environment holds.
C22_LiveStartNeedsBothSettings ==
    /\ (~development_mode /\ MissingSettings # <<>>) =>
          /\ session = "exited"
          /\ ~mounted
          /\ dynatrace_client = <<>>
          /\ last_action = Action("init", "sys.exit(1)", MissingSettings)
    /\ (~development_mode /\ MissingSettings = <<>>) =>
          /\ session = "running"
          /\ Len(dynatrace_client) = 1
          /\ dynatrace_client[1].token = environment["DYNATRACE_TOKEN"]
          /\ LET given == environment["DYNATRACE_BASE_URL"]
                 kept  == dynatrace_client[1].base_url
             IN  /\ Len(kept) <= Len(given)
                 /\ SubSeq(given, 1, Len(kept)) = kept
                 /\ \A i \in (Len(kept) + 1)..Len(given) : given[i] = "/"
                 /\ kept # <<>> => kept[Len(kept)] # "/"
    /\ development_mode =>
          /\ session = "running"
          /\ dynatrace_client = <<>>

\* a live start with the base address set and no token: the process has
\* ended with the message about DYNATRACE_TOKEN
C22_Witness ==
    /\ ~development_mode
    /\ ~Missing("DYNATRACE_BASE_URL")
    /\ "DYNATRACE_TOKEN" \notin DOMAIN environment
    /\ session = "exited"
    /\ last_action.arg = <<"DYNATRACE_TOKEN">>

\* the file cannot be read as a list of entries with these keys: it is
\* missing, is no JSON, or has an entry without one of the keys
Unreadable(file, keys) ==
    \/ file.kind \in {"missing", "unparsable"}
    \/ \E i \in 1..Len(file.data) : ~(keys \subseteq DOMAIN file.data[i])

\* C24: when the history file or the saved-queries file is missing or
\* malformed at the start, the list loaded from it is empty and the start
\* goes on as with a readable file: the session runs unless a live start
\* lacks its settings.
C24_UnreadableFileLoadsEmpty ==
    /\ Unreadable(history_file, {"query"}) => query_history = <<>>
    /\ Unreadable(queries_file, {"name", "query"}) => saved_queries = <<>>
    /\ (development_mode \/ MissingSettings = <<>>) => session = "running"

\* the UI is mounted after a start that found a history file with an entry
\* without a query and content that is no JSON in the saved-queries file
C24_Witness ==
    /\ mounted
    /\ session = "running"
    /\ history_file.kind = "json"
    /\ Unreadable(history_file, {"query"})
    /\ queries_file.kind = "unparsable"
    /\ query_history = <<>>
    /\ saved_queries = <<>>

---------------------------------------------------------------------------
(* Persistence of the two stores.                                          *)

\* the step is a completed change of the history: a run of a non-empty
\* query, a delete in the history dialog, or clear all
HistoryChangeDone ==
    \/ last_action'.name = "run_query" /\ clean_query(last_action'.arg) # <<>>
    \/ /\ last_action'.name = "query_history"
       /\ last_action'.result \in {"delete", "clear_all"}
       /\ notifications' # <<Note("Failed to delete query", <<>>)>>

\* the step is a completed change of the saved queries: an accepted add, or
\* a delete
QueriesChangeDone ==
    \/ last_action'.name = "add_query" /\ last_action'.result = "True"
    \/ last_action'.name = "delete_query"

\* C23: each completed change of the history (add, delete of an entry, clear
\* all) and of the saved queries (add, delete) has written the whole list to
\* its file when the step ends: the file is a JSON list that loads to the
\* list in memory.
C23_StoresWrittenOnEveryChange ==
    [][/\ HistoryChangeDone =>
             /\ history_file'.kind = "json"
             /\ Len(history_file'.data) = Len(query_history')
             /\ \A i \in 1..Len(query_history') :
                   history_file'.data[i].query = query_history'[i]
       /\ QueriesChangeDone =>
             /\ queries_file'.kind = "json"
             /\ Len(queries_file'.data) = Len(saved_queries')
             /\ \A i \in 1..Len(saved_queries') :
                   /\ queries_file'.data[i].name = saved_queries'[i].name
                   /\ queries_file'.data[i].query = saved_queries'[i].query]_vars

\* a second query was run and the history file holds both entries; the
\* saved-queries file is still the one of the start, which is no JSON
C23_Witness ==
    /\ last_action.name = "run_query"
    /\ Len(query_history) = 2
    /\ history_file =
          JsonFile(<<[query |-> query_history[1]], [query |-> query_history[2]]>>)
    /\ queries_file.kind = "unparsable"

---------------------------------------------------------------------------
(* clean_query.                                                            *)

\* the lines of a text, split at its line breaks
RECURSIVE LinesOf(_)
LinesOf(text) ==
    IF \A i \in 1..Len(text) : text[i] # "\n" THEN <<text>>
    ELSE LET k == CHOOSE i \in 1..Len(text) :
                     text[i] = "\n" /\ \A j \in 1..(i - 1) : text[j] # "\n"
         IN  <<SubSeq(text, 1, k - 1)>>
             \o LinesOf(SubSeq(text, k + 1, Len(text)))

IsBlankLine(line) == \A i \in 1..Len(line) : line[i] \in Whitespace

\* the first character of the line that is no white space is '#'
IsCommentLine(line) ==
    \E i \in 1..Len(line) :
        line[i] = "#" /\ \A j \in 1..(i - 1) : line[j] \in Whitespace

IsKeptLine(line) == ~IsBlankLine(line) /\ ~IsCommentLine(line)

\* lines joined with line breaks
RECURSIVE Joined(_)
Joined(lines) ==
    IF lines = <<>> THEN <<>>
    ELSE IF Len(lines) = 1 THEN lines[1]
    ELSE lines[1] \o <<"\n">> \o Joined(Tail(lines))

\* a text from its first to its last character that is no white space
Trimmed(text) ==
    LET inked == {i \in 1..Len(text) : text[i] \notin Whitespace}
    IN  IF inked = {} THEN <<>>
        ELSE SubSeq(text, CHOOSE i \in inked : \A j \in inked : i <= j,
                          CHOOSE i \in inked : \A j \in inked : j <= i)

\* C25: for every text that is run, the cleaned query is the lines of the
\* text that are neither blank nor comments, in their order, joined and
\* trimmed, and cleaning it again changes nothing; for a text of comment and
\* blank lines only it is empty, the run adds no history entry and, in
\* development mode, leaves current_logs = all_logs.
C25_CleanQueryKeepsQueryLines ==
    /\ [](last_action.name = "run_query" =>
            LET text == last_action.arg IN
            /\ clean_query(text) = Trimmed(Joined(SelectSeq(LinesOf(text),
                                                           IsKeptLine)))
            /\ clean_query(clean_query(text)) = clean_query(text)
            /\ SelectSeq(LinesOf(text), IsKeptLine) = <<>> =>
                  /\ clean_query(text) = <<>>
                  /\ development_mode => current_logs = all_logs)
    /\ [][(/\ last_action'.name = "run_query"
           /\ SelectSeq(LinesOf(last_action'.arg), IsKeptLine) = <<>>) =>
              query_history' = query_history]_vars

\* a text of an indented comment and an empty line was run: the history
\* has no entry and both records are shown
C25_Witness ==
    /\ last_action = Action("run_query", "", <<" ", "#", "\n">>)
    /\ query_history = <<>>
    /\ current_logs = all_logs
    /\ Len(table_rows) = 2

---------------------------------------------------------------------------
(* calculate_timeframe.                                                    *)

\* the lengths of the months of the two years of the clock
MonthLengths(year) ==
    IF year = 2024 THEN <<31, 29, 31, 30, 31, 30, 31, 31, 30, 31, 30, 31>>
    ELSE <<31, 28, 31, 30, 31, 30, 31, 31, 30, 31, 30, 31>>

\* the calendar day before the date of a time
DayBefore(t) ==
    IF t.day > 1 THEN [year |-> t.year, month |-> t.month, day |-> t.day - 1]
    ELSE IF t.month > 1
    THEN [year |-> t.year, month |-> t.month - 1,
          day |-> MonthLengths(t.year)[t.month - 1]]
    ELSE [year |-> t.year - 1, month |-> 12, day |-> 31]

\* the time h:m:s.us on a date
At(date, hour, minute, second, microsecond) ==
    Clock(date.year, date.month, date.day, hour, minute, second, microsecond)

\* C26: a call of calculate_timeframe("yesterday") yields, at every time of
\* the clock, 00:00:00.000000 and 23:59:59.999999 of the calendar day
\* before the UTC date of now, returned as their ISO 8601 texts; at
\* 2024-03-15T10:00:00Z these are 2024-03-14T00:00:00 and
\* 2024-03-14T23:59:59.999999 UTC.
C26_YesterdayIsThePreviousDay ==
    (last_timeframe # <<>> /\ last_timeframe[1].time_range = "yesterday") =>
        LET call == last_timeframe[1] IN
        /\ call.start = At(DayBefore(now), 0, 0, 0, 0)
        /\ call.end = At(DayBefore(now), 23, 59, 59, 999999)
        /\ call.result = <<isoformat(call.start), isoformat(call.end)>>
        /\ now = Clock(2024, 3, 15, 10, 0, 0, 0) =>
              /\ call.start = Clock(2024, 3, 14, 0, 0, 0, 0)
              /\ call.end = Clock(2024, 3, 14, 23, 59, 59, 999999)
              /\ call.result[1] =
                    <<"2","0","2","4","-","0","3","-","1","4","T",
                      "0","0",":","0","0",":","0","0","+","0","0",":","0","0">>
              /\ call.result[2] =
                    <<"2","0","2","4","-","0","3","-","1","4","T",
                      "2","3",":","5","9",":","5","9",".",
                      "9","9","9","9","9","9","+","0","0",":","0","0">>

\* a query was run with `yesterday` chosen in the first instant of March
\* 2024: the time frame is the leap day
C26_Witness ==
    /\ last_action.name = "run_query"
    /\ now = Clock(2024, 3, 1, 0, 0, 0, 0)
    /\ last_timeframe # <<>>
    /\ last_timeframe[1].time_range = "yesterday"
    /\ last_timeframe[1].start = Clock(2024, 2, 29, 0, 0, 0, 0)
    /\ last_timeframe[1].end = Clock(2024, 2, 29, 23, 59, 59, 999999)

\* the days from the first day of 2023 to the date of a time
RECURSIVE DaysBeforeMonth(_, _)
DaysBeforeMonth(year, month) ==
    IF month = 1 THEN 0
    ELSE DaysBeforeMonth(year, month - 1) + MonthLengths(year)[month - 1]

DayNumber(t) ==
    (IF t.year = 2024 THEN 365 ELSE 0) + DaysBeforeMonth(t.year, t.month)
    + t.day - 1

SecondOfDay(t) == t.hour * 3600 + t.minute * 60 + t.second

\* time a is not after time b
NotAfter(a, b) ==
    \/ DayNumber(a) < DayNumber(b)
    \/ /\ DayNumber(a) = DayNumber(b)
       /\ \/ SecondOfDay(a) < SecondOfDay(b)
          \/ /\ SecondOfDay(a) = SecondOfDay(b)
             /\ a.microsecond <= b.microsecond

\* time a is `seconds` seconds before time b
SecondsBefore(a, b, seconds) ==
    /\ a.microsecond = b.microsecond
    /\ (DayNumber(b) - DayNumber(a)) * 86400
       + SecondOfDay(b) - SecondOfDay(a) = seconds

\* the durations of the relative time ranges, in seconds
DurationOf(time_range) ==
    CASE time_range = "30m" -> 1800
      [] time_range = "60m" -> 3600
      [] time_range = "2h"  -> 7200
      [] time_range = "6h"  -> 21600
      [] time_range = "24h" -> 86400
      [] time_range = "7d"  -> 604800

RelativeRanges == {"30m", "60m", "2h", "6h", "24h", "7d"}

\* C27: every call of calculate_timeframe returns times with
\* start <= end <= now; for 30m, 60m, 2h, 6h, 24h and 7d the end is now and
\* the start is now minus the duration; for today the start is the last
\* midnight and the end is now; a time range that is none of the eight
\* options is answered as 30m is.
C27_TimeframeWithinNow ==
    last_timeframe # <<>> =>
        LET call == last_timeframe[1] IN
        /\ NotAfter(call.start, call.end)
        /\ NotAfter(call.end, now)
        /\ call.result = <<isoformat(call.start), isoformat(call.end)>>
        /\ call.time_range \in RelativeRanges =>
              /\ call.end = now
              /\ SecondsBefore(call.start, now, DurationOf(call.time_range))
        /\ call.time_range = "today" =>
              /\ call.end = now
              /\ call.start = At(now, 0, 0, 0, 0)
        /\ call.time_range \notin RelativeRanges \cup {"today", "yesterday"} =>
              /\ call.end = now
              /\ SecondsBefore(call.start, now, DurationOf("30m"))

\* a query was run with no option chosen in the Select ten minutes after
\* the start of 2024: the time frame starts in 2023
C27_Witness ==
    /\ last_action.name = "run_query"
    /\ now = Clock(2024, 1, 1, 0, 10, 0, 500000)
    /\ last_timeframe # <<>>
    /\ last_timeframe[1].time_range = SelectBlank
    /\ last_timeframe[1].start = Clock(2023, 12, 31, 23, 40, 0, 500000)
    /\ last_timeframe[1].end = now

---------------------------------------------------------------------------
(* Row selection.                                                          *)

\* C30: on_data_table_row_selected with a row that current_logs has sets
\* selected_log to the record of that row; with any other row it changes
\* nothing: the selection, the details pane, the records and the table
\* stay as they were and the session goes on.
C30_RowSelectionInBoundsOrNothing ==
    [][last_action'.name = "row_selected" =>
          LET row == last_action'.arg IN
          IF 0 <= row /\ row < Len(current_logs)
          THEN /\ selected_log' = <<current_logs[row + 1]>>
               /\ current_logs' = current_logs
          ELSE /\ selected_log' = selected_log
               /\ log_details' = log_details
               /\ session' = "running"
               /\ UNCHANGED <<dataVars, tableVars, query_text, query_history,
                              visible_columns, searchVars>>]_vars

\* row 1 was selected while one record is shown: the record selected
\* before is still selected
C30_Witness ==
    /\ last_action = Action("row_selected", "", 1)
    /\ Len(current_logs) = 1
    /\ selected_log # <<>>

\* the highest index of details_heights
TopLevel == Len(details_heights) - 1

\* C31: with the pane visible, an increase below the highest level raises
\* current_details_index by exactly one and an increase at the highest level
\* changes neither the index nor the visibility; a decrease above the lowest
\* level lowers the index by exactly one; no increase or decrease moves the
\* index by more than one.
C31_IncreaseDecreaseMoveOneLevel ==
    [][ /\ ( /\ last_action'.name = "increase_details"
             /\ details_visible
             /\ current_details_index < TopLevel )
           => /\ current_details_index' = current_details_index + 1
              /\ details_visible'
        /\ ( /\ last_action'.name = "increase_details"
             /\ details_visible
             /\ current_details_index = TopLevel )
           => /\ current_details_index' = current_details_index
              /\ details_visible'
        /\ ( /\ last_action'.name = "decrease_details"
             /\ details_visible
             /\ current_details_index > 0 )
           => /\ current_details_index' = current_details_index - 1
              /\ details_visible'
        /\ last_action'.name \in {"increase_details", "decrease_details"}
           => current_details_index' - current_details_index \in {-1, 0, 1}
      ]_vars

\* an increase that left the visible pane at the highest level
C31_Witness ==
    /\ last_action.name = "increase_details"
    /\ notifications = <<>>
    /\ details_visible
    /\ current_details_index = TopLevel
    /\ details_height = 30

\* C32: a search for a non-empty term leaves current_match_index at 0 when
\* it found matches and at -1 when it found none; in every state
\* current_match_index is -1 exactly when search_matches is empty, and
\* search_active holds exactly when search_term is not empty.
C32_CursorFollowsMatches ==
    /\ []( /\ current_match_index = -1 <=> search_matches = <<>>
           /\ search_active <=> search_term # <<>> )
    /\ [][ ( /\ last_action'.name = "search"
             /\ last_action'.result = "search"
             /\ last_action'.arg # <<>> )
           => /\ search_matches' # <<>> => current_match_index' = 0
              /\ search_matches' = <<>> => current_match_index' = -1
              /\ search_active' ]_vars

\* a search that found several matches and stands on the first
C32_Witness ==
    /\ last_action.name = "search"
    /\ last_action.result = "search"
    /\ last_action.arg # <<>>
    /\ search_active
    /\ Len(search_matches) >= 2
    /\ current_match_index = 0

\* the sequence s without its element at the 0-based position index
WithoutPosition(s, index) ==
    [i \in 1..(Len(s) - 1) |-> IF i <= index THEN s[i] ELSE s[i + 1]]

\* C33: clear_entry(index) with 0 <= index < len(history) removes the entry
\* at that index, keeps the other entries in their order and returns True;
\* with a negative index or one of at least the length it returns False and
\* changes neither the history nor its file.  Delete in the history dialog
\* removes the highlighted entry in the same way.
C33_ClearEntryRemovesOnlyValidIndex ==
    [][ /\ last_action'.name = "clear_entry" =>
             LET index == last_action'.arg
             IN  IF 0 <= index /\ index < Len(query_history)
                 THEN /\ last_action'.result = "True"
                      /\ query_history' = WithoutPosition(query_history, index)
                 ELSE /\ last_action'.result = "False"
                      /\ UNCHANGED <<query_history, history_file>>
        /\ ( /\ last_action'.name = "query_history"
             /\ last_action'.result = "delete" )
           => /\ query_history' =
                    WithoutPosition(query_history, last_action'.arg)
              /\ notifications' = <<Note("Query deleted from history", <<>>)>>
      ]_vars

\* clear_entry has refused the index that equals the length of a history
\* of several entries
C33_Witness ==
    /\ last_action.name = "clear_entry"
    /\ last_action.result = "False"
    /\ last_action.arg = Len(query_history)
    /\ Len(query_history) >= 2

\* C34: selected_log, when it is set, is one of the records of current_logs
\* (a query run or a clear that takes the record out of current_logs also
\* unsets or replaces the selection).
C34_SelectedRecordIsCurrent ==
    selected_log # <<>> =>
        \E i \in 1..Len(current_logs) : current_logs[i] = selected_log[1]

\* C35: once the application is mounted no step changes all_logs: it holds
\* the same records in the same order whatever the user does (queries,
\* clear, search, columns, details pane, row selection, saved queries and
\* history).
C35_AllLogsNeverModified ==
    [][mounted => all_logs' = all_logs]_vars

\* a reload in live mode has brought records into current_logs while
\* all_logs is as __init__ left it
C35_Witness ==
    /\ last_action.name = "run_query"
    /\ ~development_mode
    /\ clean_query(query_text) = <<>>
    /\ last_response.kind = "ok"
    /\ current_logs # <<>>
    /\ all_logs = <<>>

\* C36: a decrease while the pane is hidden changes nothing of the pane
\* (index, visibility, height) and notifies nothing; an increase or a toggle
\* of the hidden pane then shows it at the index it was hidden with.
C36_DecreaseWhileHiddenIsNoOp ==
    [][ /\ (last_action'.name = "decrease_details" /\ ~details_visible)
           => /\ UNCHANGED detailsVars
              /\ notifications' = <<>>
        /\ ( /\ last_action'.name \in {"increase_details", "toggle_details"}
             /\ ~details_visible )
           => /\ details_visible'
              /\ current_details_index' = current_details_index
              /\ details_height' = details_heights[current_details_index' + 1]
      ]_vars

\* a decrease of the pane hidden at the level of 20 lines
C36_Witness ==
    /\ last_action.name = "decrease_details"
    /\ ~details_visible
    /\ current_details_index = 3
    /\ details_height = 0

\* C37: after run_query with a text whose clean_query is not empty, in
\* development mode and in live mode, the cleaned query is the first entry
\* of the history, whether the query was answered or failed; after a failed
\* remote query current_logs is empty and the query is in the history all
\* the same.
C37_QueryRecordedBeforeExecution ==
    (last_action.name = "run_query" /\ clean_query(last_action.arg) # <<>>) =>
        /\ query_history # <<>>
        /\ query_history[1] = clean_query(last_action.arg)
        /\ last_response.kind \in {"error", "raise"} => current_logs = <<>>

\* a remote query that raised, recorded in front of an earlier query
C37_Witness ==
    /\ last_action.name = "run_query"
    /\ ~development_mode
    /\ last_response.kind = "raise"
    /\ current_logs = <<>>
    /\ Len(query_history) = 2
    /\ query_history[1] = clean_query(last_action.arg)

\* the letters of each column name
Spelling ==
    "CPU Usage" :>
        <<"C","P","U"," ","U","s","a","g","e">> @@
    "Cache Hit" :>
        <<"C","a","c","h","e"," ","H","i","t">> @@
    "Client IP" :>
        <<"C","l","i","e","n","t"," ","I","P">> @@
    "Content" :>
        <<"C","o","n","t","e","n","t">> @@
    "Custom Field 1" :>
        <<"C","u","s","t","o","m"," ","F","i","e","l","d"," ","1">> @@
    "Custom Field 2" :>
        <<"C","u","s","t","o","m"," ","F","i","e","l","d"," ","2">> @@
    "Database Query" :>
        <<"D","a","t","a","b","a","s","e"," ","Q","u","e","r","y">> @@
    "Disk IO" :>
        <<"D","i","s","k"," ","I","O">> @@
    "Endpoint" :>
        <<"E","n","d","p","o","i","n","t">> @@
    "Error Code" :>
        <<"E","r","r","o","r"," ","C","o","d","e">> @@
    "Host" :>
        <<"H","o","s","t">> @@
    "Level" :>
        <<"L","e","v","e","l">> @@
    "Memory Usage" :>
        <<"M","e","m","o","r","y"," ","U","s","a","g","e">> @@
    "Message" :>
        <<"M","e","s","s","a","g","e">> @@
    "Method" :>
        <<"M","e","t","h","o","d">> @@
    "Network IO" :>
        <<"N","e","t","w","o","r","k"," ","I","O">> @@
    "Process ID" :>
        <<"P","r","o","c","e","s","s"," ","I","D">> @@
    "Referer" :>
        <<"R","e","f","e","r","e","r">> @@
    "Request ID" :>
        <<"R","e","q","u","e","s","t"," ","I","D">> @@
    "Response Time" :>
        <<"R","e","s","p","o","n","s","e"," ","T","i","m","e">> @@
    "Service" :>
        <<"S","e","r","v","i","c","e">> @@
    "Session ID" :>
        <<"S","e","s","s","i","o","n"," ","I","D">> @@
    "Span ID" :>
        <<"S","p","a","n"," ","I","D">> @@
    "Stack Trace" :>
        <<"S","t","a","c","k"," ","T","r","a","c","e">> @@
    "Status Code" :>
        <<"S","t","a","t","u","s"," ","C","o","d","e">> @@
    "Thread ID" :>
        <<"T","h","r","e","a","d"," ","I","D">> @@
    "Timestamp" :>
        <<"T","i","m","e","s","t","a","m","p">> @@
    "Trace ID" :>
        <<"T","r","a","c","e"," ","I","D">> @@
    "User Agent" :>
        <<"U","s","e","r"," ","A","g","e","n","t">> @@
    "User ID" :>
        <<"U","s","e","r"," ","I","D">>

\* the place of the character c in the sequence `order`
Rank(c, order) == CHOOSE i \in 1..Len(order) : order[i] = c

\* s comes first of the two different strings s and t when characters are
\* compared by their place in `order`
RECURSIVE ComesFirst(_, _, _)
ComesFirst(s, t, order) ==
    IF s = <<>> THEN t # <<>>
    ELSE IF t = <<>> THEN FALSE
    ELSE IF s[1] # t[1] THEN Rank(s[1], order) < Rank(t[1], order)
    ELSE ComesFirst(Tail(s), Tail(t), order)

\* the characters in the order of a dictionary: the blank, the digits, the
\* letters without regard to their case
DictionaryOrder == <<" ">> \o Digits \o LowerCase

\* the characters in the order of their codes, which is the order Python
\* compares strings by: the blank, the digits, the upper-case letters, the
\* lower-case letters
CodeOrder == <<" ">> \o Digits \o UpperCase \o LowerCase

\* the column names of `columns` stand as in a dictionary
IsAlphabetical(columns) ==
    \A i, j \in 1..Len(columns) :
        i < j => ComesFirst(lower(Spelling[columns[i]]),
                            lower(Spelling[columns[j]]), DictionaryOrder)

\* the column names of `columns` stand in the order of their character
\* codes
IsInCodeOrder(columns) ==
    \A i, j \in 1..Len(columns) :
        i < j => ComesFirst(Spelling[columns[i]], Spelling[columns[j]],
                            CodeOrder)

ShownAlone(q) ==
    IF q = <<>> THEN all_logs
    ELSE SelectSeq(all_logs, LAMBDA l : QueryMatches(q, l))

\* C39: in development mode run_query shows what the query shows when it is
\* run alone, whatever current_logs held before: a query run after another
\* one filters all_logs, not the result of the other, and running a query
\* again changes nothing of current_logs.
C39_OfflineRunIgnoresPreviousResult ==
    [][ (last_action'.name = "run_query" /\ development_mode) =>
          LET q == clean_query(last_action'.arg)
          IN  /\ current_logs' = ShownAlone(q)
              /\ ( /\ last_action.name = "run_query"
                   /\ clean_query(last_action.arg) = q )
                 => current_logs' = current_logs ]_vars

\* the query `in` run after the query PAY shows the record that PAY had
\* filtered out
C39_Witness ==
    /\ last_action.name = "run_query"
    /\ development_mode
    /\ all_logs = <<LogA, LogB>>
    /\ query_history = <<<<"i", "n">>, <<"P", "A", "Y">>>>
    /\ current_logs = <<LogB>>

=============================================================================
